---- MODULE Spec2Model ----
(***************************************************************************)
(* Model of the NestJS food-delivery backend: the users store, the JWT     *)
(* middleware (principal resolver), the role metadata of the resolvers     *)
(* (role registry) and AuthGuard.canActivate (decision engine).            *)
(***************************************************************************)
EXTENDS Integers, Sequences, FiniteSets, TLC

(* ---------------------------------------------------------------- bounds *)
NumEmails == 1     \* distinct e-mail addresses clients sign up with
MaxRoles == 2      \* longest @Role([...]) list handed to the guard on its own
MaxUsers == 2      \* user rows the service calls insert
MaxCodes == 2      \* verification codes the service calls issue
MaxRestaurants == 2  \* restaurant rows the service calls insert
MaxOrders == 1       \* order rows
MaxItems == 2        \* items of one createOrder input; order-item rows
MaxOptions == 2      \* options of one item of the input

(* ------------------------------------------------------------ JS values *)
Undefined == [kind |-> "undefined"]
NoProp == "undefined"                  \* reading a property an object lacks

Emails == 1..NumEmails
Passwords == {"pw", "wrong"}
UserIds == 1..NumEmails

\* request objects alive at once: the claims about several requests compare
\* them pairwise, so two are kept
Reqs == {1, 2}

\* service calls in flight: one call runs to its end before the next starts
Calls == {1}

\* ... and where the claims are about calls that overlap, two
RaceCalls == {1, 2}

\* what the service calls are given: ids, e-mail addresses (an edit can move
\* to one address nobody signed up with), passwords, verification codes
ServiceIds == 1..MaxUsers
ServiceEmails == 1..(NumEmails + 1)
EditPasswords == {"new"}
Codes == 1..MaxCodes

\* enum UserRole: the VALUES stored in the role column
UserRole == {"client", "owner", "delivery"}

\* enum UserRole: the key ('Owner') whose value ('owner') a row stores
UserRoleKey(v) ==
  CASE v = "client" -> "Client"
    [] v = "owner" -> "Owner"
    [] v = "delivery" -> "Delivery"

\* keyof typeof UserRole | 'Any': the labels a @Role([...]) list holds
AllowedRoles == {"Client", "Owner", "Delivery", "Any"}

(* bcrypt: n counts how many times hash() was applied on top of plain *)
Hash(p) == [plain |-> p.plain, n |-> p.n + 1]
Plain(s) == [plain |-> s, n |-> 0]
Compare(aPassword, stored) == stored = Hash(Plain(aPassword))

(* -------------------------------------------------------- role registry *)
Roles(list) == [kind |-> "roles", list |-> list]

\* SetMetadata('roles', ...) as written on the resolvers' handlers;
\* a handler without @Role has no 'roles' metadata.
Registry ==
  [ hi               |-> Undefined,
    createAccount    |-> Undefined,
    login            |-> Undefined,
    me               |-> Roles(<<"Any">>),
    userProfile      |-> Roles(<<"Any">>),
    editProfile      |-> Roles(<<"Any">>),
    verifyEmail      |-> Undefined,
    createRestaurant |-> Roles(<<"Owner">>),
    editRestaurant   |-> Roles(<<"Owner">>),
    deleteRestaurant |-> Roles(<<"Owner">>),
    restaurants      |-> Undefined,
    restaurant       |-> Undefined,
    searchRestaurant |-> Undefined,
    allCategories    |-> Undefined,
    category         |-> Undefined,
    createOrder      |-> Roles(<<"Client">>),
    getOrders        |-> Roles(<<"Any">>),
    getOrder         |-> Roles(<<"Any">>),
    editOrder        |-> Roles(<<"Any">>) ]

Ops == DOMAIN Registry

VARIABLES users, nextId, verifications, issued, registry, reqs,
          guardRoles, guardUser, guardVerdict,
          calls, mails, nextCode, changedPassword, usedCodes,
          restaurants, categories, dishes, orders, orderItems, shopIds,
          shopCalls

vars == <<users, nextId, verifications, issued, registry, reqs,
          guardRoles, guardUser, guardVerdict,
          calls, mails, nextCode, changedPassword, usedCodes,
          restaurants, categories, dishes, orders, orderItems, shopIds,
          shopCalls>>

store == <<users, nextId, verifications>>
guardVars == <<guardRoles, guardUser, guardVerdict>>
serviceVars == <<calls, mails, nextCode, changedPassword, usedCodes>>
shopVars == <<restaurants, categories, dishes, orders, orderItems, shopIds,
              shopCalls>>

(* ----------------------------------------------------------- users store *)
NoRow == [kind |-> "null"]

\* variant: the password column selected with the rest of the row
FindOneById_selectPassword(us, id) ==
  IF id \in DOMAIN us /\ us[id] # NoRow
    THEN [kind |-> "User", id |-> id, email |-> us[id].email,
          role |-> us[id].role, verified |-> us[id].verified,
          password |-> us[id].password]
    ELSE NoRow

\* Repository.findOne({ where: { id } }): password is select:false
FindOneById(us, id) ==
  IF id \in DOMAIN us /\ us[id] # NoRow
    THEN [kind |-> "User", id |-> id, email |-> us[id].email,
          role |-> us[id].role, verified |-> us[id].verified]
    ELSE NoRow

\* Repository.findOne({ where: { email }, select: ['id', 'password'] })
FindOneByEmail(us, email) ==
  IF \E id \in DOMAIN us : us[id] # NoRow /\ us[id].email = email
    THEN LET id == CHOOSE i \in DOMAIN us : us[i] # NoRow /\ us[i].email = email
         IN [kind |-> "User", id |-> id, password |-> us[id].password]
    ELSE NoRow

(* ------------------------------------------------------------ JwtService *)
\* jwt.sign({ id }, privateKey)
Sign(id) == [kind |-> "jwt", id |-> id, sig |-> "ok", expired |-> FALSE]

NoHeader == [kind |-> "none", id |-> 0, sig |-> "none", expired |-> FALSE]
Malformed == [kind |-> "garbage", id |-> 0, sig |-> "none", expired |-> FALSE]
Tampered == [kind |-> "jwt", id |-> 1, sig |-> "bad", expired |-> FALSE]
Expired == [kind |-> "jwt", id |-> 1, sig |-> "ok", expired |-> TRUE]

\* variant: verification that skips the exp check (ignoreExpiration)
Verify_ignoreExpiration(token) ==
  IF token.kind # "jwt" THEN [throws |-> TRUE, id |-> 0, name |-> "JsonWebTokenError"]
  ELSE IF token.sig # "ok" THEN [throws |-> TRUE, id |-> 0, name |-> "JsonWebTokenError"]
  ELSE [throws |-> FALSE, id |-> token.id, name |-> "none"]

\* jwt.verify(token, privateKey): the decoded payload, or a thrown error
Verify(token) ==
  IF token.kind # "jwt" THEN [throws |-> TRUE, id |-> 0, name |-> "JsonWebTokenError"]
  ELSE IF token.sig # "ok" THEN [throws |-> TRUE, id |-> 0, name |-> "JsonWebTokenError"]
  ELSE IF token.expired THEN [throws |-> TRUE, id |-> 0, name |-> "TokenExpiredError"]
  ELSE [throws |-> FALSE, id |-> token.id, name |-> "none"]

(* ---------------------------------------------------------- UsersService *)
\* variant: findById resolving to the row or null (Promise<User | null>)
findById_null(us, id, dbFails) ==
  IF dbFails THEN NoRow ELSE FindOneById(us, id)

\* variant: findById without its try/catch
findById_noCatch(us, id, dbFails) ==
  IF dbFails THEN [kind |-> "throws", message |-> "db error"]
  ELSE LET user == FindOneById(us, id)
       IN IF user = NoRow
            THEN [kind |-> "UserProfileOutput", ok |-> FALSE,
                  error |-> "User not found", user |-> NoRow]
            ELSE [kind |-> "UserProfileOutput", ok |-> TRUE,
                  error |-> "none", user |-> user]

\* findById: the UserProfileOutput it resolves to; dbFails: findOne rejects
findById(us, id, dbFails) ==
  IF dbFails THEN [kind |-> "UserProfileOutput", ok |-> FALSE,
                   error |-> "db error", user |-> NoRow]
  ELSE LET user == FindOneById(us, id)
       IN IF user = NoRow
            THEN [kind |-> "UserProfileOutput", ok |-> FALSE,
                  error |-> "User not found", user |-> NoRow]
            ELSE [kind |-> "UserProfileOutput", ok |-> TRUE,
                  error |-> "none", user |-> user]

(* ------------------------------------- UsersService: values and store calls *)
\* { ok, error } as a mutation returns it; a rejected promise
Output(ok, error) == [kind |-> "output", ok |-> ok, error |-> error]
Ok == Output(TRUE, "none")
LoginOk(token) == [kind |-> "output", ok |-> TRUE, error |-> "none", token |-> token]
Thrown(message) == [kind |-> "throws", message |-> message]
DbError == "db error"                  \* message of an error the store raises

HasProp(o, p) == p \in DOMAIN o

\* variant: createAccount without its try/catch
createAccount_catch_rethrow(message) == Thrown(message)

\* catch (error) of createAccount and of login; a method without try/catch
\* rejects with the error
createAccount_catch(message) == Output(FALSE, "Could not create account.")
login_catch(message) == Output(FALSE, "Could not login.")
Reject(message) == Thrown(message)

\* the rows findOne({ where: { email } }) can return: no ORDER BY, any match
RowsByEmail(us, email) ==
  {id \in DOMAIN us : us[id] # NoRow /\ us[id].email = email}

\* users.create({ email, password, role }): an entity without id
CreateUser(email, password, role) ==
  [kind |-> "User", email |-> email, password |-> Plain(password), role |-> role]

\* User.hashPassword (@BeforeInsert, @BeforeUpdate): hashes what the entity
\* carries in password, if it carries one
hashPassword(e) ==
  IF HasProp(e, "password") THEN [e EXCEPT !.password = Hash(e.password)] ELSE e

\* users.save(entity) on an entity without id: INSERT, verified defaults false
InsertUser(us, id, e) ==
  LET h == hashPassword(e)
  IN [us EXCEPT ![id] = [kind |-> "User", id |-> id, email |-> h.email,
                         password |-> h.password, role |-> h.role,
                         verified |-> FALSE]]

\* users.save(entity) on a loaded entity: UPDATE of the columns the entity
\* carries; a column the entity lacks (password, select:false) is left alone
UpdateUser(us, e) ==
  LET h == hashPassword(e)
  IN [us EXCEPT ![e.id] = [kind |-> "User", id |-> e.id, email |-> h.email,
                           password |-> IF HasProp(h, "password") THEN h.password
                                        ELSE us[e.id].password,
                           role |-> h.role, verified |-> h.verified]]

\* user.password = editProfileInput.password
SetPassword(e, password) ==
  [f \in DOMAIN e \cup {"password"} |->
     IF f = "password" THEN Plain(password) ELSE e[f]]

\* verifications.findOne({ where: { code }, relations: ['user'] })
FindVerification(vs, us, code) ==
  IF \E v \in vs : v.code = code
    THEN LET v == CHOOSE w \in vs : w.code = code
         IN [kind |-> "Verification", code |-> v.code, userId |-> v.userId,
             user |-> FindOneById(us, v.userId)]
    ELSE NoRow

\* Verification.user is @OneToOne with @JoinColumn: the foreign key is unique,
\* an insert for a user that has a verification is rejected
HasVerification(vs, userId) == \E v \in vs : v.userId = userId

\* variant: the delete by id that removes nothing
DeleteVerification_kept(vs, code) == vs

\* verifications.delete({ user: { id } }) and verifications.delete({ id })
DeleteVerificationsOf(vs, userId) == {v \in vs : v.userId # userId}
DeleteVerification(vs, code) == {v \in vs : v.code # code}

\* variant: the mail sent without the saved verification's code
Mail_noCode(email, code) == [username |-> email, code |-> 0]

\* sendVerificationEmail(email, code): the variables of the mail sent
Mail(email, code) == [username |-> email, code |-> code]

(* ------------------------------------------------------------- AuthGuard *)
\* JS truthiness of what the middleware / the context may hold
Truthy(v) == v # Undefined /\ v # NoRow

\* user.role: the property read the guard performs on the context's user
RoleProp(v) == IF v.kind = "User" THEN v.role ELSE NoProp

\* Array.prototype.includes
Includes(list, x) == \E i \in DOMAIN list : list[i] = x

\* variant: fail-closed when the handler has no 'roles' metadata
canActivate_failClosed(roles, user) ==
  IF roles = Undefined THEN FALSE
  ELSE IF ~Truthy(user) THEN FALSE
  ELSE IF Includes(roles.list, "Any") THEN TRUE
  ELSE Includes(roles.list, RoleProp(user))

\* variant: the `if (!user) return false` test is missing
canActivate_noUserCheck(roles, user) ==
  IF roles = Undefined THEN TRUE
  ELSE IF Includes(roles.list, "Any") THEN TRUE
  ELSE Includes(roles.list, RoleProp(user))

\* variant: the `roles.includes('Any')` test is missing
canActivate_anyIgnored(roles, user) ==
  IF roles = Undefined THEN TRUE
  ELSE IF ~Truthy(user) THEN FALSE
  ELSE Includes(roles.list, RoleProp(user))

\* variant: only the first declared label is looked at
canActivate_firstOnly(roles, user) ==
  IF roles = Undefined THEN TRUE
  ELSE IF ~Truthy(user) THEN FALSE
  ELSE IF Len(roles.list) > 0 /\ roles.list[1] = "Any" THEN TRUE
  ELSE Len(roles.list) > 0 /\ roles.list[1] = RoleProp(user)

canActivate(roles, user) ==
  IF roles = Undefined THEN TRUE
  ELSE IF ~Truthy(user) THEN FALSE
  ELSE IF Includes(roles.list, "Any") THEN TRUE
  ELSE Includes(roles.list, RoleProp(user))

(* ------------------------------------------------------ request pipeline *)
Idle == [pc |-> "idle", op |-> "unread", cred |-> NoHeader, user |-> Undefined,
         lookup |-> "none", row |-> NoRow, ctx |-> Undefined,
         verdict |-> "none", nexts |-> 0, escaped |-> FALSE,
         result |-> Undefined]

Forbidden == [kind |-> "error", message |-> "Forbidden resource"]
Handled == [kind |-> "handled"]

\* what a client can put in the x-jwt header
Credentials == {NoHeader, Malformed, Tampered, Expired} \cup issued

\* variant: jwtService.verify called outside a try/catch
UseEnter_noCatch(cred) ==
  IF cred = NoHeader THEN [to |-> "next", id |-> 0]
  ELSE LET decoded == Verify(cred)
       IN IF decoded.throws THEN [to |-> "throw", id |-> 0]
          ELSE [to |-> "findById", id |-> decoded.id]

\* JwtMiddleware.use up to its first await: where control goes next
\* (every payload login signs is an object with an id)
UseEnter(cred) ==
  IF cred = NoHeader THEN [to |-> "next", id |-> 0]
  ELSE LET decoded == Verify(cred)
       IN IF decoded.throws THEN [to |-> "next", id |-> 0]      \* catch: console.log
          ELSE [to |-> "findById", id |-> decoded.id]

\* variant: the user kept where every request sees it (a shared field)
SetReqUser_shared(rs, r, u) == [q \in DOMAIN rs |-> [rs[q] EXCEPT !.user = u]]

\* req['user'] = user
SetReqUser(rs, r, u) == [rs EXCEPT ![r].user = u]

\* JwtMiddleware.use after findById resolved
UseResume(rs, r, out) ==
  IF Truthy(out) THEN SetReqUser(rs, r, out) ELSE rs

\* GraphQLModule context: ({ req }) => ({ user: req['user'] })
Context(rs, r) == rs[r].user

\* the resolver method behind an operation, given @AuthUser(): `me` returns
\* the context's user; the effects of the other handlers are the service
\* actions below
Handler(op, ctxUser) == IF op = "me" THEN ctxUser ELSE Handled

\* next(): the GraphQL stage reads the operation op out of the body, builds
\* the context, runs the guard and, when the guard allows, the handler.
\* A finished request stays on record only next to requests for the same
\* operation.
NextStage(rs, r, op) ==
  LET ctxUser == Context(rs, r)
      allow == canActivate(registry[op], ctxUser)
      kept == [q \in DOMAIN rs |->
                 IF q # r /\ rs[q].pc = "done" /\ rs[q].op # op
                   THEN Idle ELSE rs[q]]
  IN [kept EXCEPT ![r].pc = "done",
                  ![r].op = op,
                  ![r].nexts = @ + 1,
                  ![r].ctx = ctxUser,
                  ![r].verdict = IF allow THEN "ALLOW" ELSE "DENY",
                  ![r].result = IF allow THEN Handler(op, ctxUser)
                                ELSE Forbidden]

\* an exception leaves use(): next() is not called, the request errors
Escape(rs, r) == [rs EXCEPT ![r].pc = "done", ![r].escaped = TRUE]

\* a whole `me` request on a fresh request object, with the token login signs
\* for user id, against the rows us: middleware, context, guard, handler
MeRequest(us, id) ==
  LET cred == Sign(id)
      started == [r \in {1} |-> [Idle EXCEPT !.cred = cred]]
      e == UseEnter(cred)
      resumed == IF e.to = "findById"
                   THEN UseResume(started, 1, findById(us, e.id, FALSE))
                   ELSE started
  IN NextStage(resumed, 1, "me")[1].result

(* ---------------------------------------------------------- service calls *)
\* one call of a UsersService method: its arguments (email 0 and password
\* "none": not given), the locals it holds across awaits, what it resolved
\* to, the store / mail / jwt calls it has completed so far, whether a store
\* call raised, and (verifyEmail) whether it began after its code was used
IdleCall == [pc |-> "idle", op |-> "none", email |-> 0, password |-> "none",
             role |-> "none", userId |-> 0, code |-> 0, found |-> NoRow,
             user |-> NoRow, out |-> Undefined, log |-> <<>>, raised |-> FALSE,
             after |-> FALSE]

Ev(name, id, code) == [ev |-> name, id |-> id, code |-> code]

Begin(cs, c, op) == [cs EXCEPT ![c].op = op]
Finish(cs, c, out) == [cs EXCEPT ![c].pc = "done", ![c].out = out]
Raise(cs, c, out) == [cs EXCEPT ![c].pc = "done", ![c].out = out, ![c].raised = TRUE]
Logged(cs, c, e) == [cs EXCEPT ![c].log = Append(@, e)]

\* calls that have yet to insert a user row / a verification row
PendingUsers ==
  Cardinality({c \in DOMAIN calls :
     calls[c].op = "createAccount" /\ calls[c].pc = "users.save"})
PendingCodes ==
  Cardinality({c \in DOMAIN calls :
     \/ calls[c].op = "createAccount" /\ calls[c].pc \in {"users.save", "verifications.save"}
     \/ calls[c].op = "editProfile" /\ calls[c].pc \in {"verifications.delete", "verifications.save"}})
RoomForUser == nextId + PendingUsers <= MaxUsers
RoomForCode == nextCode + PendingCodes <= MaxCodes

(* ---------------------------------------------- the guard taken on its own *)
\* @Role([...]) lists of up to MaxRoles labels
RoleLists == UNION {[1..n -> AllowedRoles] : n \in 0..MaxRoles}
RoleMetas == {Undefined} \cup {Roles(l) : l \in RoleLists}

UserEntities ==
  {[kind |-> "User", id |-> id, email |-> e, role |-> ro, verified |-> FALSE] :
     id \in UserIds, e \in Emails, ro \in UserRole}

\* what graphqlContext['user'] can hold: nothing, a User, a findById output
ContextUsers ==
  {Undefined} \cup UserEntities
    \cup {findById([i \in UserIds |-> NoRow], 1, f) : f \in BOOLEAN}
    \cup {[kind |-> "UserProfileOutput", ok |-> TRUE, error |-> "none",
           user |-> u] : u \in UserEntities}

(* ------------------------------------------- restaurants, dishes, orders *)
\* the User a resolver's @AuthUser() parameter is typed as
Principal(id, role) ==
  [kind |-> "User", id |-> id, email |-> 1, role |-> role, verified |-> FALSE]

ShopUsers == {Principal(id, role) : id \in ServiceIds, role \in UserRole}

\* what the middleware leaves in req['user'] for the token of user u, and so
\* what @AuthUser() hands to a handler the guard lets through
ReqUser(u) == findById([i \in {u.id} |-> u], u.id, FALSE)

\* an id read off an object that has none (ids start at 1)
NoId == 0

\* u.id as the services read it off what they are given
IdProp(u) == IF u.kind = "User" THEN u.id ELSE NoId

\* String.prototype.toLowerCase, trim, replace(/ /g, '-') on strings spelled
\* as sequences of characters
LowerChar(ch) ==
  CASE ch = "B" -> "b"
    [] ch = "Q" -> "q"
    [] OTHER -> ch

ToLowerCase(s) == [i \in DOMAIN s |-> LowerChar(s[i])]

RECURSIVE TrimStart(_)
TrimStart(s) ==
  IF s # <<>> /\ Head(s) = " " THEN TrimStart(Tail(s)) ELSE s

RECURSIVE TrimEnd(_)
TrimEnd(s) ==
  IF s # <<>> /\ s[Len(s)] = " " THEN TrimEnd(SubSeq(s, 1, Len(s) - 1)) ELSE s

Trim(s) == TrimEnd(TrimStart(s))

ReplaceSpaces(s) == [i \in DOMAIN s |-> IF s[i] = " " THEN "-" ELSE s[i]]

\* CategoryRepository.getOrCreate: the name and the slug it looks up / saves
CategoryName(name) == ToLowerCase(Trim(name))
CategorySlug(name) == ReplaceSpaces(CategoryName(name))

\* categoryName values a client sends
CategoryNames == {<<"B", "Q">>, <<" ", "b", "q">>, <<"b", " ", "q">>}

RestaurantIds == 1..MaxRestaurants
OrderIds == 1..MaxOrders
CategoryIds == 1..Cardinality({CategorySlug(n) : n \in CategoryNames})

\* categories.findOne({ where: { slug } })
FindCategoryBySlug(cs, slug) ==
  IF \E id \in DOMAIN cs : cs[id] # NoRow /\ cs[id].slug = slug
    THEN cs[CHOOSE id \in DOMAIN cs : cs[id] # NoRow /\ cs[id].slug = slug]
    ELSE NoRow

\* restaurant.findOne({ where: { id } }): ownerId is the @RelationId column
FindRestaurant(rs, id) == IF id \in DOMAIN rs THEN rs[id] ELSE NoRow

\* OrderStatus: the members editOrder names, and the status of a new order
OrderStatus == {"Pending", "Cooking", "Cooked", "PickedUp", "Delivered"}

\* an object-valued property, undefined when the object lacks it
ObjProp(o, p) == IF p \in DOMAIN o THEN o[p] ELSE Undefined

\* orders.findOne({ where: { id }, relations: ['restaurant'] }): the columns
\* and the one relation asked for; customer and driver are not loaded
FindOrder(os, rs, id) ==
  IF id \in DOMAIN os /\ os[id] # NoRow
    THEN [kind |-> "Order", id |-> id, status |-> os[id].status,
          total |-> os[id].total,
          restaurant |-> FindRestaurant(rs, os[id].restaurantId)]
    ELSE NoRow

\* OrderService.canSeeOrder; order.restaurant?.ownerId
canSeeOrder(user, order) ==
  IF RoleProp(user) = "owner"
     /\ (IF order.restaurant = NoRow THEN NoId ELSE order.restaurant.ownerId)
          # IdProp(user)
    THEN FALSE
  ELSE IF RoleProp(user) = "delivery" /\ ObjProp(order, "driver") # user THEN FALSE
  ELSE IF RoleProp(user) = "client" /\ ObjProp(order, "customer") # user THEN FALSE
  ELSE TRUE

\* editOrder: let canEdit = true; ... the three role tests
canEdit(user, status) ==
  /\ RoleProp(user) # "client"
  /\ RoleProp(user) = "owner" => status \in {"Cooked", "Cooking"}
  /\ RoleProp(user) = "delivery" => status \in {"PickedUp", "Delivered"}

\* one call of an OrderService / RestaurantsService method: who calls, with
\* what input, the locals it holds across awaits, what it resolved to, the
\* store calls it completed, whether a store call raised, and the stores as
\* they were when it was called
IdleShopCall == [pc |-> "idle", op |-> "none", user |-> Undefined,
                 input |-> Undefined, local |-> Undefined, out |-> Undefined,
                 log |-> <<>>, raised |-> FALSE, before |-> Undefined]

Stores == [restaurants |-> restaurants, categories |-> categories,
           orders |-> orders, orderItems |-> orderItems]

ShopBegin(cs, c, op, user, input) ==
  [cs EXCEPT ![c].op = op, ![c].user = user, ![c].input = input,
             ![c].before = Stores]
ShopFinish(cs, c, out) == [cs EXCEPT ![c].pc = "done", ![c].out = out]
ShopRaise(cs, c, out) ==
  [cs EXCEPT ![c].pc = "done", ![c].out = out, ![c].raised = TRUE]

InitShop ==
  /\ restaurants = [id \in RestaurantIds |-> NoRow]
  /\ categories = [id \in CategoryIds |-> NoRow]
  /\ dishes = <<>>
  /\ orders = <<>>
  /\ orderItems = <<>>
  /\ shopIds = [restaurant |-> 1, category |-> 1, order |-> 1, item |-> 1]
  /\ shopCalls = <<>>

(* ------------------------------------------------------------------ Init *)
InitStore ==
  /\ users = [id \in UserIds |-> NoRow]
  /\ nextId = 1
  /\ verifications = {}

InitGuardIdle ==
  /\ guardRoles = Undefined
  /\ guardUser = Undefined
  /\ guardVerdict = "none"

InitService ==
  /\ calls = [c \in Calls |-> IdleCall]
  /\ mails = {}
  /\ nextCode = 1
  /\ changedPassword = [id \in ServiceIds |-> "none"]
  /\ usedCodes = {}

Init ==
  /\ InitStore
  /\ issued = {}
  /\ registry = Registry
  /\ reqs = [r \in Reqs |-> Idle]
  /\ InitGuardIdle
  /\ InitService
  /\ InitShop

(* --------------------------------------------------------------- actions *)
\* a POST /graphql with credential cred, asking for operation op, arrives and
\* runs JwtMiddleware.use until it awaits or ends. The middleware reads the
\* header only: op is recorded where the body is first read, in NextStage.
Receive(r, op, cred) ==
  /\ reqs[r].pc = "idle"
  /\ LET started == [reqs EXCEPT ![r].cred = cred]
         e == UseEnter(cred)
     IN reqs' = CASE e.to = "findById" -> [started EXCEPT ![r].pc = "findById"]
                  [] e.to = "next" -> NextStage(started, r, op)
                  [] OTHER -> Escape(started, r)
  /\ UNCHANGED shopVars
  /\ UNCHANGED <<store, issued, registry, guardVars, serviceVars>>

\* usersService.findById resolves; the middleware finishes and calls next()
ResumeFindById(r, op, dbFails) ==
  /\ reqs[r].pc = "findById"
  /\ LET id == Verify(reqs[r].cred).id
         out == findById(users, id, dbFails)
         row == IF dbFails THEN NoRow ELSE FindOneById(users, id)
         seen == [reqs EXCEPT ![r].row = row,
                              ![r].lookup = IF dbFails THEN "failed"
                                            ELSE IF row = NoRow THEN "missing"
                                            ELSE "found"]
     IN reqs' = NextStage(UseResume(seen, r, out), r, op)
  /\ UNCHANGED shopVars
  /\ UNCHANGED <<store, issued, registry, guardVars, serviceVars>>

\* the response was sent; the request object is gone
Retire(r) ==
  /\ reqs[r].pc = "done"
  /\ reqs' = [reqs EXCEPT ![r] = Idle]
  /\ UNCHANGED shopVars
  /\ UNCHANGED <<store, issued, registry, guardVars, serviceVars>>

\* UsersService.createAccount run without interruption, on an e-mail no row
\* holds: the user is saved (hashPassword runs before the insert), then its
\* verification (whose code the row number stands for here), then the mail is
\* sent. With the e-mail taken it returns an error and writes nothing.
createAccount(email, password, role) ==
  /\ FindOneByEmail(users, email) = NoRow
  /\ nextId \in UserIds
  /\ users' = [users EXCEPT ![nextId] =
                 [kind |-> "User", id |-> nextId, email |-> email,
                  password |-> Hash(Plain(password)), role |-> role,
                  verified |-> FALSE]]
  /\ verifications' = verifications \cup {[code |-> nextId, userId |-> nextId]}
  /\ mails' = mails \cup {Mail(email, nextId)}
  /\ nextId' = nextId + 1
  /\ UNCHANGED shopVars
  /\ UNCHANGED <<issued, registry, reqs, guardVars, calls, nextCode,
                 changedPassword, usedCodes>>

\* UsersService.login, when it signs a token: the user exists and the
\* password checks. Otherwise it returns an error and signs nothing.
login(email, password) ==
  /\ LET user == FindOneByEmail(users, email)
     IN /\ user # NoRow
        /\ Compare(password, user.password)
        /\ issued' = issued \cup {Sign(user.id)}
  /\ UNCHANGED shopVars
  /\ UNCHANGED <<store, registry, reqs, guardVars, serviceVars>>

\* afterAll: dataSource.dropDatabase() and app.close(). The rows go, and with
\* the application its MailService and the mails it was asked for; signed
\* tokens outlive both
dropDatabase ==
  /\ nextId > 1
  /\ users' = [id \in UserIds |-> NoRow]
  /\ verifications' = {}
  /\ nextId' = 1
  /\ mails' = {}
  /\ UNCHANGED shopVars
  /\ UNCHANGED <<issued, registry, reqs, guardVars, calls, nextCode,
                 changedPassword, usedCodes>>

Next ==
  \/ \E r \in Reqs, op \in Ops, cred \in Credentials : Receive(r, op, cred)
  \/ \E r \in Reqs, op \in Ops, dbFails \in BOOLEAN : ResumeFindById(r, op, dbFails)
  \/ \E r \in Reqs : Retire(r)
  \/ \E email \in Emails, role \in UserRole : createAccount(email, "pw", role)
  \/ \E email \in Emails, password \in Passwords : login(email, password)
  \/ dropDatabase

Spec == Init /\ [][Next]_vars

(* ------------------------- UsersService, one step per awaited store call *)
\* variant: the lookup by e-mail that never finds a row
FindByEmail_none(us, email) == {NoRow}

\* what users.findOne({ where: { email } }) can resolve to
FindByEmail(us, email) ==
  IF RowsByEmail(us, email) = {} THEN {NoRow}
  ELSE {FindOneById(us, id) : id \in RowsByEmail(us, email)}

\* variant: the select list without 'password' (the column is select:false)
FindForLogin_unselected(us, email) ==
  IF RowsByEmail(us, email) = {} THEN {NoRow}
  ELSE {[kind |-> "User", id |-> id, password |-> Plain("undefined")] :
          id \in RowsByEmail(us, email)}

\* ... and with select: ['id', 'password']
FindForLogin(us, email) ==
  IF RowsByEmail(us, email) = {} THEN {NoRow}
  ELSE {[kind |-> "User", id |-> id, password |-> us[id].password] :
          id \in RowsByEmail(us, email)}

\* createAccount is called; users.findOne resolves (or rejects: fails)
createAccount_findOne(c, email, password, role, fails) ==
  /\ calls[c].pc = "idle"
  /\ LET begun == [Begin(calls, c, "createAccount") EXCEPT
                     ![c].email = email, ![c].password = password,
                     ![c].role = role]
     IN IF fails
          THEN calls' = Raise(begun, c, createAccount_catch(DbError))
          ELSE \E exists \in FindByEmail(users, email) :
                 IF exists # NoRow
                   THEN calls' = Finish([begun EXCEPT ![c].found = exists], c,
                                        Output(FALSE, "There is a user with that email already"))
                   ELSE /\ RoomForUser /\ RoomForCode
                        /\ calls' = [begun EXCEPT ![c].pc = "users.save",
                                       ![c].user = CreateUser(email, password, role)]
  /\ UNCHANGED shopVars
  /\ UNCHANGED <<store, issued, registry, reqs, guardVars, mails, nextCode,
                 changedPassword, usedCodes>>

\* createAccount: users.save(user) resolves
createAccount_usersSave(c, fails) ==
  /\ calls[c].op = "createAccount" /\ calls[c].pc = "users.save"
  /\ IF fails
       THEN /\ calls' = Raise(calls, c, createAccount_catch(DbError))
            /\ UNCHANGED <<users, nextId>>
       ELSE /\ users' = InsertUser(users, nextId, calls[c].user)
            /\ nextId' = nextId + 1
            /\ calls' = [Logged(calls, c, Ev("users.save", nextId, 0)) EXCEPT
                           ![c].pc = "verifications.save", ![c].userId = nextId]
  /\ UNCHANGED shopVars
  /\ UNCHANGED <<verifications, issued, registry, reqs, guardVars, mails,
                 nextCode, changedPassword, usedCodes>>

\* createAccount: verifications.save resolves; the mail is handed to the
\* mail service (not awaited; sendEmail catches its own errors); return
createAccount_verificationsSave(c, fails) ==
  /\ calls[c].op = "createAccount" /\ calls[c].pc = "verifications.save"
  /\ IF fails \/ HasVerification(verifications, calls[c].userId)
       THEN /\ calls' = Raise(calls, c, createAccount_catch(DbError))
            /\ UNCHANGED <<verifications, nextCode, mails>>
       ELSE /\ verifications' = verifications \cup
                                  {[code |-> nextCode, userId |-> calls[c].userId]}
            /\ nextCode' = nextCode + 1
            /\ mails' = mails \cup {Mail(calls[c].email, nextCode)}
            /\ calls' = Finish(
                 Logged(Logged([calls EXCEPT ![c].code = nextCode], c,
                               Ev("verifications.save", calls[c].userId, nextCode)),
                        c, Ev("sendVerificationEmail", calls[c].email, nextCode)),
                 c, Ok)
  /\ UNCHANGED shopVars
  /\ UNCHANGED <<users, nextId, issued, registry, reqs, guardVars,
                 changedPassword, usedCodes>>

\* login: findOne, checkPassword and sign (no store call after findOne)
login_findOne(c, email, password, fails) ==
  /\ calls[c].pc = "idle"
  /\ LET begun == [Begin(calls, c, "login") EXCEPT
                     ![c].email = email, ![c].password = password]
     IN IF fails
          THEN /\ calls' = Raise(begun, c, login_catch(DbError))
               /\ UNCHANGED issued
          ELSE \E user \in FindForLogin(users, email) :
                 LET seen == [begun EXCEPT ![c].found = user]
                 IN IF user = NoRow
                      THEN /\ calls' = Finish(seen, c, Output(FALSE, "User not found"))
                           /\ UNCHANGED issued
                    ELSE IF ~Compare(password, user.password)
                      THEN /\ calls' = Finish(seen, c, Output(FALSE, "Wrong password"))
                           /\ UNCHANGED issued
                    ELSE /\ issued' = issued \cup {Sign(user.id)}
                         /\ calls' = Finish(Logged(seen, c, Ev("sign", user.id, 0)),
                                             c, LoginOk(Sign(user.id)))
  /\ UNCHANGED shopVars
  /\ UNCHANGED <<store, registry, reqs, guardVars, mails, nextCode,
                 changedPassword, usedCodes>>

\* editProfile is called (email 0 / password "none": not in the input);
\* users.findOne resolves
editProfile_findOne(c, userId, email, password, fails) ==
  /\ calls[c].pc = "idle"
  /\ LET begun == [Begin(calls, c, "editProfile") EXCEPT
                     ![c].userId = userId, ![c].email = email,
                     ![c].password = password]
         user == FindOneById(users, userId)
     IN IF fails THEN calls' = Raise(begun, c, Reject(DbError))
        ELSE IF user = NoRow
          THEN calls' = Finish(begun, c, Reject("User not found"))
        ELSE IF email # 0
          THEN /\ RoomForCode
               /\ calls' = [begun EXCEPT
                              ![c].pc = "verifications.delete", ![c].found = user,
                              ![c].user = [user EXCEPT !.email = email,
                                                       !.verified = FALSE]]
        ELSE calls' = [begun EXCEPT
                         ![c].pc = "users.save", ![c].found = user,
                         ![c].user = IF password # "none"
                                       THEN SetPassword(user, password) ELSE user]
  /\ UNCHANGED shopVars
  /\ UNCHANGED <<store, issued, registry, reqs, guardVars, mails, nextCode,
                 changedPassword, usedCodes>>

\* editProfile: verifications.delete({ user: { id } }) resolves
editProfile_verificationsDelete(c, fails) ==
  /\ calls[c].op = "editProfile" /\ calls[c].pc = "verifications.delete"
  /\ IF fails
       THEN /\ calls' = Raise(calls, c, Reject(DbError))
            /\ UNCHANGED verifications
       ELSE /\ verifications' = DeleteVerificationsOf(verifications, calls[c].user.id)
            /\ calls' = [Logged(calls, c, Ev("verifications.delete", calls[c].user.id, 0))
                           EXCEPT ![c].pc = "verifications.save"]
  /\ UNCHANGED shopVars
  /\ UNCHANGED <<users, nextId, issued, registry, reqs, guardVars, mails,
                 nextCode, changedPassword, usedCodes>>

\* editProfile: verifications.save resolves (the mail call is commented out);
\* the password of the input is put on the entity, users.save is issued
editProfile_verificationsSave(c, fails) ==
  /\ calls[c].op = "editProfile" /\ calls[c].pc = "verifications.save"
  /\ IF fails \/ HasVerification(verifications, calls[c].user.id)
       THEN /\ calls' = Raise(calls, c, Reject(DbError))
            /\ UNCHANGED <<verifications, nextCode>>
       ELSE /\ verifications' = verifications \cup
                                  {[code |-> nextCode, userId |-> calls[c].user.id]}
            /\ nextCode' = nextCode + 1
            /\ calls' = [Logged(calls, c, Ev("verifications.save", calls[c].user.id, nextCode))
                           EXCEPT ![c].pc = "users.save", ![c].code = nextCode,
                                  ![c].user = IF calls[c].password # "none"
                                                THEN SetPassword(@, calls[c].password)
                                                ELSE @]
  /\ UNCHANGED shopVars
  /\ UNCHANGED <<users, nextId, issued, registry, reqs, guardVars, mails,
                 changedPassword, usedCodes>>

\* editProfile: users.save(merge(user, input)) resolves to the saved entity
editProfile_usersSave(c, fails) ==
  /\ calls[c].op = "editProfile" /\ calls[c].pc = "users.save"
  /\ IF fails
       THEN /\ calls' = Raise(calls, c, Reject(DbError))
            /\ UNCHANGED <<users, changedPassword>>
       ELSE /\ users' = UpdateUser(users, calls[c].user)
            /\ changedPassword' =
                 IF calls[c].password # "none"
                   THEN [changedPassword EXCEPT ![calls[c].user.id] = calls[c].password]
                   ELSE changedPassword
            /\ calls' = Finish(Logged(calls, c, Ev("users.save", calls[c].user.id, 0)),
                                c, hashPassword(calls[c].user))
  /\ UNCHANGED shopVars
  /\ UNCHANGED <<nextId, verifications, issued, registry, reqs, guardVars,
                 mails, nextCode, usedCodes>>

\* verifyEmail is called; verifications.findOne resolves
verifyEmail_findOne(c, code, fails) ==
  /\ calls[c].pc = "idle"
  /\ LET begun == [Begin(calls, c, "verifyEmail") EXCEPT
                     ![c].code = code, ![c].after = code \in usedCodes]
         verification == FindVerification(verifications, users, code)
     IN IF fails THEN calls' = Raise(begun, c, Reject(DbError))
        ELSE IF verification = NoRow
          THEN calls' = Finish(begun, c, Output(FALSE, "Verification not found."))
        ELSE calls' = [begun EXCEPT
                         ![c].pc = "users.save", ![c].found = verification,
                         ![c].user = [verification.user EXCEPT !.verified = TRUE]]
  /\ UNCHANGED shopVars
  /\ UNCHANGED <<store, issued, registry, reqs, guardVars, mails, nextCode,
                 changedPassword, usedCodes>>

\* verifyEmail: users.save(verification.user) resolves
verifyEmail_usersSave(c, fails) ==
  /\ calls[c].op = "verifyEmail" /\ calls[c].pc = "users.save"
  /\ IF fails
       THEN /\ calls' = Raise(calls, c, Reject(DbError))
            /\ UNCHANGED users
       ELSE /\ users' = UpdateUser(users, calls[c].user)
            /\ calls' = [Logged(calls, c, Ev("users.save", calls[c].user.id, 0))
                           EXCEPT ![c].pc = "verifications.delete"]
  /\ UNCHANGED shopVars
  /\ UNCHANGED <<nextId, verifications, issued, registry, reqs, guardVars,
                 mails, nextCode, changedPassword, usedCodes>>

\* verifyEmail: verifications.delete({ id }) resolves; return { ok: true }
verifyEmail_verificationsDelete(c, fails) ==
  /\ calls[c].op = "verifyEmail" /\ calls[c].pc = "verifications.delete"
  /\ IF fails
       THEN /\ calls' = Raise(calls, c, Reject(DbError))
            /\ UNCHANGED <<verifications, usedCodes>>
       ELSE /\ verifications' = DeleteVerification(verifications, calls[c].found.code)
            /\ usedCodes' = usedCodes \cup {calls[c].found.code}
            /\ calls' = Finish(Logged(calls, c, Ev("verifications.delete", 0, calls[c].found.code)),
                                c, Ok)
  /\ UNCHANGED shopVars
  /\ UNCHANGED <<users, nextId, issued, registry, reqs, guardVars, mails,
                 nextCode, changedPassword>>

\* the caller has its answer; the call is over
Return(c) ==
  /\ calls[c].pc = "done"
  /\ calls' = [calls EXCEPT ![c] = IdleCall]
  /\ UNCHANGED shopVars
  /\ UNCHANGED <<store, issued, registry, reqs, guardVars, mails, nextCode,
                 changedPassword, usedCodes>>

InitUsers ==
  /\ users = [id \in ServiceIds |-> NoRow]
  /\ nextId = 1
  /\ verifications = {}
  /\ issued = {}
  /\ registry = Registry
  /\ reqs = [r \in Reqs |-> Idle]
  /\ InitGuardIdle
  /\ InitService
  /\ InitShop

NextUsers ==
  \/ \E c \in Calls, email \in Emails, role \in UserRole, fails \in BOOLEAN :
       createAccount_findOne(c, email, "pw", role, fails)
  \/ \E c \in Calls, fails \in BOOLEAN : createAccount_usersSave(c, fails)
  \/ \E c \in Calls, fails \in BOOLEAN : createAccount_verificationsSave(c, fails)
  \/ \E c \in Calls, email \in ServiceEmails,
        password \in Passwords \cup EditPasswords, fails \in BOOLEAN :
       login_findOne(c, email, password, fails)
  \/ \E c \in Calls, userId \in ServiceIds, email \in {0} \cup ServiceEmails,
        password \in {"none"} \cup EditPasswords, fails \in BOOLEAN :
       editProfile_findOne(c, userId, email, password, fails)
  \/ \E c \in Calls, fails \in BOOLEAN : editProfile_verificationsDelete(c, fails)
  \/ \E c \in Calls, fails \in BOOLEAN : editProfile_verificationsSave(c, fails)
  \/ \E c \in Calls, fails \in BOOLEAN : editProfile_usersSave(c, fails)
  \/ \E c \in Calls, code \in Codes, fails \in BOOLEAN :
       verifyEmail_findOne(c, code, fails)
  \/ \E c \in Calls, fails \in BOOLEAN : verifyEmail_usersSave(c, fails)
  \/ \E c \in Calls, fails \in BOOLEAN : verifyEmail_verificationsDelete(c, fails)
  \/ \E c \in Calls : Return(c)

SpecUsers == InitUsers /\ [][NextUsers]_vars

(* ------------------------------ OrderService.editOrder, one step per await *)
\* who the resolver hands to editOrder: a User, as the signature says, or what
\* the middleware stored for a token (of a stored user, of a deleted one) and
\* the guard let through as 'Any'
EditOrderUsers ==
  {u \in ShopUsers \cup {ReqUser(v) : v \in ShopUsers}
           \cup {findById([i \in {1} |-> NoRow], 1, FALSE)} :
     canActivate(Registry.editOrder, u)}

\* editOrder is called; orders.findOne resolves; canSeeOrder and the role
\* tests run
editOrder_findOne(c, user, orderId, status, fails) ==
  /\ shopCalls[c].pc = "idle"
  /\ LET begun == ShopBegin(shopCalls, c, "editOrder", user,
                            [id |-> orderId, status |-> status])
         order == FindOrder(orders, restaurants, orderId)
     IN shopCalls' =
          IF fails THEN ShopRaise(begun, c, Output(FALSE, "Could not edit order."))
          ELSE IF order = NoRow
            THEN ShopFinish(begun, c, Output(FALSE, "Order not found."))
          ELSE IF ~canSeeOrder(user, order)
            THEN ShopFinish(begun, c,
                            Output(FALSE, "You are not allowed to edit this order."))
          ELSE IF ~canEdit(user, status)
            THEN ShopFinish(begun, c,
                            Output(FALSE, "You are not allowed to edit this order."))
          ELSE [begun EXCEPT ![c].pc = "orders.save", ![c].local = order]
  /\ UNCHANGED <<store, issued, registry, reqs, guardVars, serviceVars>>
  /\ UNCHANGED <<restaurants, categories, dishes, orders, orderItems, shopIds>>

\* editOrder: orders.save({ id, status }) resolves
editOrder_save(c, fails) ==
  /\ shopCalls[c].op = "editOrder" /\ shopCalls[c].pc = "orders.save"
  /\ IF fails
       THEN /\ shopCalls' = ShopRaise(shopCalls, c,
                                      Output(FALSE, "Could not edit order."))
            /\ UNCHANGED orders
       ELSE /\ orders' = [orders EXCEPT
                            ![shopCalls[c].input.id].status = shopCalls[c].input.status]
            /\ shopCalls' = ShopFinish(
                 [shopCalls EXCEPT ![c].log =
                    Append(@, Ev("orders.save", shopCalls[c].input.id, 0))],
                 c, Ok)
  /\ UNCHANGED <<store, issued, registry, reqs, guardVars, serviceVars>>
  /\ UNCHANGED <<restaurants, categories, dishes, orderItems, shopIds>>

\* the caller has its answer; the call is over
ShopReturn(c) ==
  /\ shopCalls[c].pc = "done"
  /\ shopCalls' = [shopCalls EXCEPT ![c] = IdleShopCall]
  /\ UNCHANGED <<store, issued, registry, reqs, guardVars, serviceVars>>
  /\ UNCHANGED <<restaurants, categories, dishes, orders, orderItems, shopIds>>

\* restaurant and order rows earlier calls have left: a restaurant of any
\* owner in its category, an order (no items, total 0) by any customer for a
\* restaurant that is still there or was deleted since
RestaurantRow(id, name, ownerId, categoryId) ==
  [kind |-> "Restaurant", id |-> id, name |-> name, ownerId |-> ownerId,
   categoryId |-> categoryId]

CategoryRow(id, name) ==
  [kind |-> "Category", id |-> id, name |-> CategoryName(name),
   slug |-> CategorySlug(name)]

OrderRow(id, customerId, restaurantId, items, total) ==
  [kind |-> "Order", id |-> id, customerId |-> customerId, driverId |-> NoId,
   restaurantId |-> restaurantId, items |-> items, total |-> total,
   status |-> "Pending"]

InitEditOrder ==
  /\ InitStore
  /\ issued = {}
  /\ registry = Registry
  /\ reqs = [r \in Reqs |-> Idle]
  /\ InitGuardIdle
  /\ InitService
  /\ categories = [id \in CategoryIds |->
                     IF id = 1 THEN CategoryRow(1, <<"B", "Q">>) ELSE NoRow]
  /\ \E owner \in [RestaurantIds -> {0} \cup ServiceIds] :
       restaurants = [id \in RestaurantIds |->
                        IF owner[id] = 0 THEN NoRow
                        ELSE RestaurantRow(id, "name", owner[id], 1)]
  /\ dishes = <<>>
  /\ \E customer \in [OrderIds -> ServiceIds], restaurant \in [OrderIds -> RestaurantIds] :
       orders = [id \in OrderIds |->
                   OrderRow(id, customer[id], restaurant[id], <<>>, 0)]
  /\ orderItems = <<>>
  /\ shopIds = [restaurant |-> MaxRestaurants + 1, category |-> 2,
                order |-> MaxOrders + 1, item |-> 1]
  /\ shopCalls = [c \in Calls |-> IdleShopCall]

NextEditOrder ==
  \/ \E c \in Calls, user \in EditOrderUsers, orderId \in 1..(MaxOrders + 1),
        status \in OrderStatus, fails \in BOOLEAN :
       editOrder_findOne(c, user, orderId, status, fails)
  \/ \E c \in Calls, fails \in BOOLEAN : editOrder_save(c, fails)
  \/ \E c \in Calls : ShopReturn(c)

SpecEditOrder == InitEditOrder /\ [][NextEditOrder]_vars

(* ------------------------------ RestaurantsService, one step per await *)
\* categoryName of an edit: '' / absent is falsy
NoCategoryName == <<>>

\* variant: the owner test left out
IsOwner_anyone(restaurant, owner) == TRUE

\* restaurant.ownerId !== owner.id, negated
IsOwner(restaurant, owner) == restaurant.ownerId = IdProp(owner)

\* a rejected store call: createRestaurant catches it, editRestaurant and
\* deleteRestaurant have no try/catch
ShopFail(cs, c) ==
  ShopRaise(cs, c, IF cs[c].op = "createRestaurant"
                     THEN Output(FALSE, "Could not create restaurant.")
                     ELSE Thrown(DbError))

ShopLogged(cs, c, e) == [cs EXCEPT ![c].log = Append(@, e)]

\* createRestaurant is called: restaurant.create(input), owner set,
\* getOrCreate(categoryName) entered
createRestaurant(c, owner, name, categoryName) ==
  /\ shopCalls[c].pc = "idle"
  /\ shopIds.restaurant <= MaxRestaurants
  /\ shopCalls' = [ShopBegin(shopCalls, c, "createRestaurant", owner,
                             [name |-> name, categoryName |-> categoryName])
                     EXCEPT ![c].pc = "categories.findOne"]
  /\ UNCHANGED <<store, issued, registry, reqs, guardVars, serviceVars>>
  /\ UNCHANGED <<restaurants, categories, dishes, orders, orderItems, shopIds>>

\* getOrCreate: repository.findOne({ where: { slug } }) resolves
getOrCreate_findOne(c, fails) ==
  /\ shopCalls[c].pc = "categories.findOne"
  /\ LET category == FindCategoryBySlug(categories,
                        CategorySlug(shopCalls[c].input.categoryName))
     IN shopCalls' =
          IF fails THEN ShopFail(shopCalls, c)
          ELSE IF category = NoRow
            THEN [shopCalls EXCEPT ![c].pc = "categories.save"]
          ELSE [shopCalls EXCEPT ![c].pc = "restaurant.save",
                                 ![c].local = category]
  /\ UNCHANGED <<store, issued, registry, reqs, guardVars, serviceVars>>
  /\ UNCHANGED <<restaurants, categories, dishes, orders, orderItems, shopIds>>

\* getOrCreate: repository.save(category) resolves
getOrCreate_save(c, fails) ==
  /\ shopCalls[c].pc = "categories.save"
  /\ IF fails
       THEN /\ shopCalls' = ShopFail(shopCalls, c)
            /\ UNCHANGED <<categories, shopIds>>
       ELSE LET id == shopIds.category
                category == CategoryRow(id, shopCalls[c].input.categoryName)
            IN /\ categories' = [categories EXCEPT ![id] = category]
               /\ shopIds' = [shopIds EXCEPT !.category = id + 1]
               /\ shopCalls' = [ShopLogged(shopCalls, c, Ev("categories.save", id, 0))
                                  EXCEPT ![c].pc = "restaurant.save",
                                         ![c].local = category]
  /\ UNCHANGED <<store, issued, registry, reqs, guardVars, serviceVars>>
  /\ UNCHANGED <<restaurants, dishes, orders, orderItems>>

\* createRestaurant: restaurant.save(newRestaurant) resolves
createRestaurant_save(c, fails) ==
  /\ shopCalls[c].op = "createRestaurant" /\ shopCalls[c].pc = "restaurant.save"
  /\ IF fails
       THEN /\ shopCalls' = ShopFail(shopCalls, c)
            /\ UNCHANGED <<restaurants, shopIds>>
       ELSE LET id == shopIds.restaurant
            IN /\ restaurants' =
                    [restaurants EXCEPT ![id] =
                       RestaurantRow(id, shopCalls[c].input.name,
                                     IdProp(shopCalls[c].user),
                                     shopCalls[c].local.id)]
               /\ shopIds' = [shopIds EXCEPT !.restaurant = id + 1]
               /\ shopCalls' = ShopFinish(
                    ShopLogged(shopCalls, c, Ev("restaurant.save", id, 0)), c, Ok)
  /\ UNCHANGED <<store, issued, registry, reqs, guardVars, serviceVars>>
  /\ UNCHANGED <<categories, dishes, orders, orderItems>>

\* editRestaurant is called (name NoProp, categoryName '': not in the input);
\* restaurant.findOne resolves; the owner test runs
editRestaurant_findOne(c, owner, restaurantId, name, categoryName, fails) ==
  /\ shopCalls[c].pc = "idle"
  /\ LET begun == ShopBegin(shopCalls, c, "editRestaurant", owner,
                            [restaurantId |-> restaurantId, name |-> name,
                             categoryName |-> categoryName])
         restaurant == FindRestaurant(restaurants, restaurantId)
     IN shopCalls' =
          IF fails THEN ShopFail(begun, c)
          ELSE IF restaurant = NoRow
            THEN ShopFinish(begun, c, Output(FALSE, "Restaurant not found."))
          ELSE IF ~IsOwner(restaurant, owner)
            THEN ShopFinish(begun, c,
                   Output(FALSE, "You are not allowed to edit this restaurant."))
          ELSE IF categoryName # NoCategoryName
            THEN [begun EXCEPT ![c].pc = "categories.findOne"]
          ELSE [begun EXCEPT ![c].pc = "restaurant.save"]
  /\ UNCHANGED <<store, issued, registry, reqs, guardVars, serviceVars>>
  /\ UNCHANGED <<restaurants, categories, dishes, orders, orderItems, shopIds>>

\* editRestaurant: restaurant.save({ id, ...input, category }) resolves
editRestaurant_save(c, fails) ==
  /\ shopCalls[c].op = "editRestaurant" /\ shopCalls[c].pc = "restaurant.save"
  /\ IF fails
       THEN /\ shopCalls' = ShopFail(shopCalls, c)
            /\ UNCHANGED restaurants
       ELSE LET in == shopCalls[c].input
                id == in.restaurantId
            IN /\ restaurants' =
                    [restaurants EXCEPT
                       ![id].name = IF in.name = NoProp THEN @ ELSE in.name,
                       ![id].categoryId = IF shopCalls[c].local = Undefined
                                            THEN @ ELSE shopCalls[c].local.id]
               /\ shopCalls' = ShopFinish(
                    ShopLogged(shopCalls, c, Ev("restaurant.save", id, 0)), c, Ok)
  /\ UNCHANGED <<store, issued, registry, reqs, guardVars, serviceVars>>
  /\ UNCHANGED <<categories, dishes, orders, orderItems, shopIds>>

\* deleteRestaurant is called; restaurant.findOne resolves; the owner test
deleteRestaurant_findOne(c, owner, restaurantId, fails) ==
  /\ shopCalls[c].pc = "idle"
  /\ LET begun == ShopBegin(shopCalls, c, "deleteRestaurant", owner,
                            [restaurantId |-> restaurantId])
         restaurant == FindRestaurant(restaurants, restaurantId)
     IN shopCalls' =
          IF fails THEN ShopFail(begun, c)
          ELSE IF restaurant = NoRow
            THEN ShopFinish(begun, c, Output(FALSE, "Restaurant not found."))
          ELSE IF ~IsOwner(restaurant, owner)
            THEN ShopFinish(begun, c,
                   Output(FALSE, "You are not allowed to delete this restaurant."))
          ELSE [begun EXCEPT ![c].pc = "restaurant.delete"]
  /\ UNCHANGED <<store, issued, registry, reqs, guardVars, serviceVars>>
  /\ UNCHANGED <<restaurants, categories, dishes, orders, orderItems, shopIds>>

\* deleteRestaurant: restaurant.delete(restaurant.id) resolves
deleteRestaurant_delete(c, fails) ==
  /\ shopCalls[c].op = "deleteRestaurant" /\ shopCalls[c].pc = "restaurant.delete"
  /\ IF fails
       THEN /\ shopCalls' = ShopFail(shopCalls, c)
            /\ UNCHANGED restaurants
       ELSE LET id == shopCalls[c].input.restaurantId
            IN /\ restaurants' = [restaurants EXCEPT ![id] = NoRow]
               /\ shopCalls' = ShopFinish(
                    ShopLogged(shopCalls, c, Ev("restaurant.delete", id, 0)), c, Ok)
  /\ UNCHANGED <<store, issued, registry, reqs, guardVars, serviceVars>>
  /\ UNCHANGED <<categories, dishes, orders, orderItems, shopIds>>

InitRestaurants ==
  /\ InitStore
  /\ issued = {}
  /\ registry = Registry
  /\ reqs = [r \in Reqs |-> Idle]
  /\ InitGuardIdle
  /\ InitService
  /\ restaurants = [id \in RestaurantIds |-> NoRow]
  /\ categories = [id \in CategoryIds |-> NoRow]
  /\ dishes = <<>>
  /\ orders = <<>>
  /\ orderItems = <<>>
  /\ shopIds = [restaurant |-> 1, category |-> 1, order |-> 1, item |-> 1]
  /\ shopCalls = [c \in Calls |-> IdleShopCall]

NextRestaurants ==
  \/ \E c \in Calls, owner \in ShopUsers, categoryName \in CategoryNames :
       createRestaurant(c, owner, "name", categoryName)
  \/ \E c \in Calls, fails \in BOOLEAN : getOrCreate_findOne(c, fails)
  \/ \E c \in Calls, fails \in BOOLEAN : getOrCreate_save(c, fails)
  \/ \E c \in Calls, fails \in BOOLEAN : createRestaurant_save(c, fails)
  \/ \E c \in Calls, owner \in ShopUsers, restaurantId \in RestaurantIds,
        name \in {NoProp, "renamed"},
        categoryName \in {NoCategoryName} \cup CategoryNames, fails \in BOOLEAN :
       editRestaurant_findOne(c, owner, restaurantId, name, categoryName, fails)
  \/ \E c \in Calls, fails \in BOOLEAN : editRestaurant_save(c, fails)
  \/ \E c \in Calls, owner \in ShopUsers, restaurantId \in RestaurantIds,
        fails \in BOOLEAN :
       deleteRestaurant_findOne(c, owner, restaurantId, fails)
  \/ \E c \in Calls, fails \in BOOLEAN : deleteRestaurant_delete(c, fails)
  \/ \E c \in Calls : ShopReturn(c)

SpecRestaurants == InitRestaurants /\ [][NextRestaurants]_vars

(* ----------------------------------- createAccount calls that overlap *)
InitCreate ==
  /\ users = [id \in ServiceIds |-> NoRow]
  /\ nextId = 1
  /\ verifications = {}
  /\ issued = {}
  /\ registry = Registry
  /\ reqs = [r \in Reqs |-> Idle]
  /\ InitGuardIdle
  /\ calls = [c \in RaceCalls |-> IdleCall]
  /\ mails = {}
  /\ nextCode = 1
  /\ changedPassword = [id \in ServiceIds |-> "none"]
  /\ usedCodes = {}
  /\ InitShop

NextCreate ==
  \/ \E c \in RaceCalls, email \in Emails, role \in UserRole, fails \in BOOLEAN :
       createAccount_findOne(c, email, "pw", role, fails)
  \/ \E c \in RaceCalls, fails \in BOOLEAN : createAccount_usersSave(c, fails)
  \/ \E c \in RaceCalls, fails \in BOOLEAN : createAccount_verificationsSave(c, fails)
  \/ \E c \in RaceCalls : Return(c)

SpecCreate == InitCreate /\ [][NextCreate]_vars

(* ------------- editProfile and verifyEmail calls that overlap on an account *)
NextVerify ==
  \/ \E c \in RaceCalls, email \in Emails, fails \in BOOLEAN :
       createAccount_findOne(c, email, "pw", "client", fails)
  \/ \E c \in RaceCalls, fails \in BOOLEAN : createAccount_usersSave(c, fails)
  \/ \E c \in RaceCalls, fails \in BOOLEAN : createAccount_verificationsSave(c, fails)
  \/ \E c \in RaceCalls, userId \in ServiceIds, email \in ServiceEmails,
        fails \in BOOLEAN :
       editProfile_findOne(c, userId, email, "none", fails)
  \/ \E c \in RaceCalls, fails \in BOOLEAN : editProfile_verificationsDelete(c, fails)
  \/ \E c \in RaceCalls, fails \in BOOLEAN : editProfile_verificationsSave(c, fails)
  \/ \E c \in RaceCalls, fails \in BOOLEAN : editProfile_usersSave(c, fails)
  \/ \E c \in RaceCalls, code \in Codes, fails \in BOOLEAN :
       verifyEmail_findOne(c, code, fails)
  \/ \E c \in RaceCalls, fails \in BOOLEAN : verifyEmail_usersSave(c, fails)
  \/ \E c \in RaceCalls, fails \in BOOLEAN : verifyEmail_verificationsDelete(c, fails)
  \/ \E c \in RaceCalls : Return(c)

SpecVerify == InitCreate /\ [][NextVerify]_vars

(* --------------------------- OrderService.createOrder, one step per await *)
\* extra: undefined (Int, nullable) on a dish option or a choice
NoExtra == -1

\* if (x.extra): a number is truthy unless it is 0
TruthyExtra(x) == x # NoExtra /\ x # 0

DishOption(name, extra, choices) ==
  [name |-> name, extra |-> extra, choices |-> choices]
DishChoice(name, extra) == [name |-> name, extra |-> extra]

\* the dishes of the menu; options / choices that are undefined are written
\* <<>> (`?.find` on undefined and find on [] both give undefined)
Menu ==
  << [kind |-> "Dish", id |-> 1, price |-> 10,
      options |-> << DishOption("size", 2, <<>>),
                     DishOption("spice", NoExtra,
                                << DishChoice("hot", 1), DishChoice("mild", NoExtra) >>),
                     DishOption("free", 0, << DishChoice("hot", 1) >>) >>],
     [kind |-> "Dish", id |-> 2, price |-> 5, options |-> <<>>] >>

\* dishes.findOne({ where: { id } })
FindDish(ds, id) == IF id \in DOMAIN ds THEN ds[id] ELSE NoRow

\* Array.prototype.find by name: the first match, or undefined
FindByName(list, name) ==
  IF \E i \in DOMAIN list : list[i].name = name
    THEN list[CHOOSE i \in DOMAIN list :
                /\ list[i].name = name
                /\ \A j \in 1..(i - 1) : list[j].name # name]
    ELSE Undefined

\* variant: the extra of the chosen choice is not added
OptionExtra_noChoiceExtra(dish, itemOption) ==
  LET dishOption == FindByName(dish.options, itemOption.name)
  IN IF dishOption = Undefined THEN [found |-> TRUE, extra |-> 0]
     ELSE IF TruthyExtra(dishOption.extra)
       THEN [found |-> TRUE, extra |-> dishOption.extra]
     ELSE LET dishOptionChoice == FindByName(dishOption.choices, itemOption.choice)
          IN IF dishOptionChoice = Undefined THEN [found |-> FALSE, extra |-> 0]
             ELSE [found |-> TRUE, extra |-> 0]

\* the body of `for (const itemOption of item.options || [])`: what one
\* option adds to dishFinalPrice, or that its choice was not found
OptionExtra(dish, itemOption) ==
  LET dishOption == FindByName(dish.options, itemOption.name)
  IN IF dishOption = Undefined THEN [found |-> TRUE, extra |-> 0]
     ELSE IF TruthyExtra(dishOption.extra)
       THEN [found |-> TRUE, extra |-> dishOption.extra]
     ELSE LET dishOptionChoice == FindByName(dishOption.choices, itemOption.choice)
          IN IF dishOptionChoice = Undefined THEN [found |-> FALSE, extra |-> 0]
             ELSE IF TruthyExtra(dishOptionChoice.extra)
               THEN [found |-> TRUE, extra |-> dishOptionChoice.extra]
             ELSE [found |-> TRUE, extra |-> 0]

\* the inner loop from option k on, dishFinalPrice being price so far: the
\* final price, or the early return
RECURSIVE DishFinalPrice(_, _, _, _)
DishFinalPrice(dish, options, k, price) ==
  IF k > Len(options) THEN [found |-> TRUE, price |-> price]
  ELSE LET e == OptionExtra(dish, options[k])
       IN IF ~e.found THEN [found |-> FALSE, price |-> price]
          ELSE DishFinalPrice(dish, options, k + 1, price + e.extra)

\* what a client sends: options by name with or without a choice, items of a
\* dish with up to MaxOptions options, up to MaxItems items
OptionInputs ==
  { [name |-> "size", choice |-> NoProp],
    [name |-> "spice", choice |-> "hot"],
    [name |-> "spice", choice |-> "mild"],
    [name |-> "spice", choice |-> "cold"],
    [name |-> "free", choice |-> "hot"],
    [name |-> "other", choice |-> NoProp] }

ItemInputs ==
  {[dishId |-> d, options |-> o] :
     d \in 1..(Len(Menu) + 1),
     o \in UNION {[1..n -> OptionInputs] : n \in 0..MaxOptions}}

\* the item lists of at most n items
ItemListsUpTo(n) == UNION {[1..k -> ItemInputs] : k \in 0..n}

Customers == {Principal(1, "client")}

OrderItemRow(id, dishId, options) ==
  [kind |-> "OrderItem", id |-> id, dishId |-> dishId, options |-> options]

\* createOrder is called; restaurants.findOne resolves
createOrder_findRestaurant(c, customer, restaurantId, items, fails) ==
  /\ shopCalls[c].pc = "idle"
  /\ shopIds.order <= MaxOrders
  /\ shopIds.item + Len(items) - 1 <= MaxItems
  /\ LET begun == ShopBegin(shopCalls, c, "createOrder", customer,
                            [restaurantId |-> restaurantId, items |-> items])
         restaurant == FindRestaurant(restaurants, restaurantId)
     IN shopCalls' =
          IF fails THEN ShopRaise(begun, c, Output(FALSE, "Could not create order."))
          ELSE IF restaurant = NoRow
            THEN ShopFinish(begun, c, Output(FALSE, "Restaurant not found."))
          ELSE [begun EXCEPT
                  ![c].pc = IF items = <<>> THEN "orders.save" ELSE "dishes.findOne",
                  ![c].local = [i |-> 1, orderFinalPrice |-> 0, oderItems |-> <<>>]]
  /\ UNCHANGED <<store, issued, registry, reqs, guardVars, serviceVars>>
  /\ UNCHANGED <<restaurants, categories, dishes, orders, orderItems, shopIds>>

\* createOrder: dishes.findOne for the item at hand resolves; its price is
\* worked out; orderItems.save is issued
createOrder_findDish(c, fails) ==
  /\ shopCalls[c].op = "createOrder" /\ shopCalls[c].pc = "dishes.findOne"
  /\ LET item == shopCalls[c].input.items[shopCalls[c].local.i]
         dish == FindDish(dishes, item.dishId)
         final == DishFinalPrice(dish, item.options, 1, dish.price)
     IN shopCalls' =
          IF fails
            THEN ShopRaise(shopCalls, c, Output(FALSE, "Could not create order."))
          ELSE IF dish = NoRow
            THEN ShopFinish(shopCalls, c, Output(FALSE, "Dish not found."))
          ELSE IF ~final.found
            THEN ShopFinish(shopCalls, c,
                            Output(FALSE, "Dish option choice not found."))
          ELSE [shopCalls EXCEPT
                  ![c].pc = "orderItems.save",
                  ![c].local.orderFinalPrice = @ + final.price]
  /\ UNCHANGED <<store, issued, registry, reqs, guardVars, serviceVars>>
  /\ UNCHANGED <<restaurants, categories, dishes, orders, orderItems, shopIds>>

\* createOrder: orderItems.save(orderItem) resolves; on to the next item, or
\* to orders.save after the last
createOrder_saveItem(c, fails) ==
  /\ shopCalls[c].op = "createOrder" /\ shopCalls[c].pc = "orderItems.save"
  /\ IF fails
       THEN /\ shopCalls' = ShopRaise(shopCalls, c,
                                      Output(FALSE, "Could not create order."))
            /\ UNCHANGED <<orderItems, shopIds>>
       ELSE LET id == shopIds.item
                i == shopCalls[c].local.i
                item == shopCalls[c].input.items[i]
            IN /\ orderItems' = Append(orderItems,
                                       OrderItemRow(id, item.dishId, item.options))
               /\ shopIds' = [shopIds EXCEPT !.item = id + 1]
               /\ shopCalls' =
                    [ShopLogged(shopCalls, c, Ev("orderItems.save", id, 0)) EXCEPT
                       ![c].pc = IF i = Len(shopCalls[c].input.items)
                                   THEN "orders.save" ELSE "dishes.findOne",
                       ![c].local.i = i + 1,
                       ![c].local.oderItems = Append(@, id)]
  /\ UNCHANGED <<store, issued, registry, reqs, guardVars, serviceVars>>
  /\ UNCHANGED <<restaurants, categories, dishes, orders>>

\* createOrder: orders.save(order) resolves; return { ok: true }
createOrder_saveOrder(c, fails) ==
  /\ shopCalls[c].op = "createOrder" /\ shopCalls[c].pc = "orders.save"
  /\ IF fails
       THEN /\ shopCalls' = ShopRaise(shopCalls, c,
                                      Output(FALSE, "Could not create order."))
            /\ UNCHANGED <<orders, shopIds>>
       ELSE LET id == shopIds.order
            IN /\ orders' = [orders EXCEPT ![id] =
                               OrderRow(id, IdProp(shopCalls[c].user),
                                        shopCalls[c].input.restaurantId,
                                        shopCalls[c].local.oderItems,
                                        shopCalls[c].local.orderFinalPrice)]
               /\ shopIds' = [shopIds EXCEPT !.order = id + 1]
               /\ shopCalls' = ShopFinish(
                    ShopLogged(shopCalls, c, Ev("orders.save", id, 0)), c, Ok)
  /\ UNCHANGED <<store, issued, registry, reqs, guardVars, serviceVars>>
  /\ UNCHANGED <<restaurants, categories, dishes, orderItems>>

\* restaurant 1 and the menu are there, restaurant 2 is not; no orders yet
InitOrders ==
  /\ InitStore
  /\ issued = {}
  /\ registry = Registry
  /\ reqs = [r \in Reqs |-> Idle]
  /\ InitGuardIdle
  /\ InitService
  /\ categories = [id \in CategoryIds |->
                     IF id = 1 THEN CategoryRow(1, <<"B", "Q">>) ELSE NoRow]
  /\ restaurants = [id \in RestaurantIds |->
                      IF id = 1 THEN RestaurantRow(1, "name", 1, 1) ELSE NoRow]
  /\ dishes = Menu
  /\ orders = [id \in OrderIds |-> NoRow]
  /\ orderItems = <<>>
  /\ shopIds = [restaurant |-> 2, category |-> 2, order |-> 1, item |-> 1]
  /\ shopCalls = [c \in Calls |-> IdleShopCall]

NextOrders ==
  \/ \E c \in Calls :
       /\ shopCalls[c].pc = "idle"
       /\ \E customer \in Customers, restaurantId \in RestaurantIds,
             items \in ItemListsUpTo(MaxItems + 1 - shopIds.item),
             fails \in BOOLEAN :
            createOrder_findRestaurant(c, customer, restaurantId, items, fails)
  \/ \E c \in Calls, fails \in BOOLEAN : createOrder_findDish(c, fails)
  \/ \E c \in Calls, fails \in BOOLEAN : createOrder_saveItem(c, fails)
  \/ \E c \in Calls, fails \in BOOLEAN : createOrder_saveOrder(c, fails)
  \/ \E c \in Calls : ShopReturn(c)

SpecOrders == InitOrders /\ [][NextOrders]_vars

(* ------------------------------- SpecGuard: canActivate as a pure function *)
InitGuard ==
  /\ InitStore
  /\ issued = {}
  /\ registry = Registry
  /\ reqs = [r \in Reqs |-> Idle]
  /\ guardRoles \in RoleMetas
  /\ guardUser \in ContextUsers
  /\ guardVerdict = "none"
  /\ InitService
  /\ InitShop

\* one call of AuthGuard.canActivate
Evaluate ==
  /\ guardVerdict = "none"
  /\ guardVerdict' = IF canActivate(guardRoles, guardUser) THEN "ALLOW" ELSE "DENY"
  /\ UNCHANGED shopVars
  /\ UNCHANGED <<store, issued, registry, reqs, guardRoles, guardUser, serviceVars>>

NextGuard == Evaluate

SpecGuard == InitGuard /\ [][NextGuard]_vars

(* ---------------------------------------------------------------- claims *)
Done(r) == reqs[r].pc = "done"
Declared(op) == registry[op] # Undefined
FailingCreds == {Malformed, Tampered, Expired}

\* C1: a request for an operation without 'roles' metadata is allowed and
\* its handler runs, whatever credential it carries (none, failing
\* verification, or resolving to a user of any role).
C1_FailOpenDefault ==
  \A r \in Reqs :
    (Done(r) /\ ~Declared(reqs[r].op))
      => (reqs[r].verdict = "ALLOW" /\ reqs[r].result = Handled)

C1_Witness ==
  \E r1, r2 \in Reqs :
    /\ Done(r1) /\ Done(r2) /\ ~Declared(reqs[r1].op)
    /\ reqs[r1].cred \in FailingCreds /\ reqs[r1].verdict = "ALLOW"
    /\ reqs[r2].lookup = "found" /\ reqs[r2].verdict = "ALLOW"

C3_RoleMembershipDecides ==
  \A r \in Reqs :
    (/\ Done(r) /\ Declared(reqs[r].op)
     /\ ~Includes(registry[reqs[r].op].list, "Any")
     /\ reqs[r].lookup = "found")
      => (reqs[r].verdict = "ALLOW"
            <=> Includes(registry[reqs[r].op].list, UserRoleKey(reqs[r].row.role)))

\* C4: when the declared list contains 'Any', alone or next to concrete
\* roles, canActivate returns true for every context user that is present,
\* whatever role it carries.
C4_AnyAdmitsAuthenticated ==
  (/\ guardVerdict # "none" /\ guardRoles # Undefined
   /\ Includes(guardRoles.list, "Any") /\ Truthy(guardUser))
    => guardVerdict = "ALLOW"

C4_Witness ==
  /\ guardVerdict = "ALLOW"
  /\ guardRoles = Roles(<<"Owner", "Any">>)
  /\ guardUser.kind = "User" /\ guardUser.role = "client"

\* C5 (as claimed): when the token verifies but the lookup finds no user
\* (or fails), req['user'] stays unset and an operation with declared roles
\* is denied.
C5_StaleTokenLeavesUserUnset ==
  \A r \in Reqs :
    (Done(r) /\ reqs[r].lookup \in {"missing", "failed"})
      => (/\ reqs[r].user = Undefined
          /\ Declared(reqs[r].op) => reqs[r].verdict = "DENY")

\* C6 (as claimed): a `me` request carrying a token that login issued, whose
\* account is found, is allowed and returns that account's own record
\* (id, email, role).
C6_MeReturnsLoggedInAccount ==
  \A r \in Reqs :
    (/\ Done(r) /\ reqs[r].op = "me" /\ reqs[r].cred \in issued
     /\ reqs[r].lookup = "found")
      => (reqs[r].verdict = "ALLOW" /\ reqs[r].result = reqs[r].row)

\* C7: no exception leaves JwtMiddleware.use and next() is called exactly
\* once per request, and only when use() finishes.
C7_ResolverNeverRaises ==
  \A r \in Reqs :
    /\ ~reqs[r].escaped
    /\ reqs[r].nexts = IF Done(r) THEN 1 ELSE 0

C7_Witness ==
  \E r1, r2 \in Reqs :
    /\ Done(r1) /\ reqs[r1].cred = Tampered /\ reqs[r1].nexts = 1
    /\ Done(r2) /\ reqs[r2].lookup = "failed" /\ reqs[r2].nexts = 1

\* C8: on one operation, a request whose credential fails verification gets
\* the verdict and the response of a request without credential; and every
\* denied request gets the same 'Forbidden resource'.
C8_FailureCollapses ==
  /\ \A r1, r2 \in Reqs :
       (/\ Done(r1) /\ Done(r2) /\ reqs[r1].op = reqs[r2].op
        /\ reqs[r1].cred \in FailingCreds /\ reqs[r2].cred = NoHeader)
         => (/\ reqs[r1].verdict = reqs[r2].verdict
             /\ reqs[r1].result = reqs[r2].result)
  /\ \A r \in Reqs :
       (Done(r) /\ reqs[r].verdict = "DENY") => reqs[r].result = Forbidden

C8_Witness ==
  \E r1, r2 \in Reqs :
    /\ Done(r1) /\ Done(r2) /\ reqs[r1].op = "me" /\ reqs[r2].op = "me"
    /\ reqs[r1].cred = Expired /\ reqs[r2].cred = NoHeader
    /\ reqs[r1].result = Forbidden /\ reqs[r2].result = Forbidden

\* C9: what a request holds in req['user'], and what its guard saw, comes
\* from the lookup made for that request's own token and from nothing else;
\* the registry stays as declared.
C9_RequestIsolation ==
  /\ registry = Registry
  /\ \A r \in Reqs :
       IF reqs[r].lookup = "none"
         THEN reqs[r].user = Undefined /\ reqs[r].ctx = Undefined
         ELSE /\ Done(r)
              /\ reqs[r].cred \in issued
              /\ reqs[r].user.kind = "UserProfileOutput"
              /\ reqs[r].user.user = reqs[r].row
              /\ reqs[r].row # NoRow => reqs[r].row.id = reqs[r].cred.id
              /\ reqs[r].ctx = reqs[r].user

C9_Witness ==
  \E r1, r2 \in Reqs :
    /\ Done(r1) /\ reqs[r1].lookup = "found" /\ reqs[r1].ctx.ok
    /\ Done(r2) /\ reqs[r2].cred = NoHeader /\ reqs[r2].ctx = Undefined
    /\ reqs[r1].op = "me" /\ reqs[r2].verdict = "DENY"

Count(list, x) == Cardinality({i \in DOMAIN list : list[i] = x})
IsPermutation(l1, l2) ==
  Len(l1) = Len(l2) /\ \A x \in AllowedRoles : Count(l1, x) = Count(l2, x)

\* C11: for a fixed context user, canActivate gives every permutation of the
\* declared list the verdict it gave the list itself.
C11_OrderIndependent ==
  (guardVerdict # "none" /\ guardRoles # Undefined)
    => \A l \in RoleLists :
         IsPermutation(l, guardRoles.list)
           => (canActivate(Roles(l), guardUser) <=> guardVerdict = "ALLOW")

C11_Witness ==
  /\ guardVerdict = "ALLOW"
  /\ guardRoles = Roles(<<"Any", "Owner">>)
  /\ guardUser.kind = "UserProfileOutput"

(* ----------------------------------------------- claims on the users service *)
Begins(c, op) == calls[c].pc = "idle" /\ calls'[c].op = op
Ends(c, op) == calls[c].pc # "done" /\ calls'[c].pc = "done" /\ calls'[c].op = op
DoneCall(c, op) == calls[c].pc = "done" /\ calls[c].op = op
EmailTaken == Output(FALSE, "There is a user with that email already")

\* C12: a createAccount call whose e-mail a stored user holds (and whose
\* lookup does not raise) ends at once with 'There is a user with that email
\* already', having written no user, no verification and sent no mail.
C12_DuplicateEmailRejected ==
  [][\A c \in Calls :
       (/\ Begins(c, "createAccount") /\ ~calls'[c].raised
        /\ RowsByEmail(users, calls'[c].email) # {})
         => (/\ calls'[c].pc = "done" /\ calls'[c].out = EmailTaken
             /\ calls'[c].log = <<>>
             /\ UNCHANGED <<users, nextId, verifications, mails>>)]_vars

C12_Witness ==
  \E c \in Calls :
    /\ DoneCall(c, "createAccount") /\ calls[c].out = EmailTaken
    /\ RowsByEmail(users, calls[c].email) # {} /\ calls[c].log = <<>>

\* C13: a createAccount call on an unused e-mail, with no store error, saves
\* one user carrying the given e-mail, password and role, then one
\* verification for that user, then asks for one mail carrying that
\* verification's code, and returns { ok: true }: in that order, each once.
C13_CreateAccountSteps ==
  \A c \in Calls :
    /\ (calls[c].op = "createAccount" /\ calls[c].pc = "verifications.save")
         => (/\ calls[c].log = <<Ev("users.save", calls[c].userId, 0)>>
             /\ users[calls[c].userId] # NoRow
             /\ \A v \in verifications : v.userId # calls[c].userId)
    /\ (DoneCall(c, "createAccount") /\ ~calls[c].raised /\ calls[c].found = NoRow)
         => calls[c].out = Ok
    /\ (DoneCall(c, "createAccount") /\ calls[c].out = Ok)
         => LET id == calls[c].userId
                code == calls[c].code
            IN /\ calls[c].log = <<Ev("users.save", id, 0),
                                    Ev("verifications.save", id, code),
                                    Ev("sendVerificationEmail", calls[c].email, code)>>
               /\ users[id] # NoRow
               /\ users[id].email = calls[c].email
               /\ users[id].role = calls[c].role
               /\ users[id].password = Hash(Plain(calls[c].password))
               /\ RowsByEmail(users, calls[c].email) = {id}
               /\ {v \in verifications : v.userId = id} = {[code |-> code, userId |-> id]}
               /\ [username |-> calls[c].email, code |-> code] \in mails

C13_Witness ==
  \E c \in Calls :
    /\ DoneCall(c, "createAccount") /\ calls[c].out = Ok
    /\ calls[c].userId = 2 /\ Len(calls[c].log) = 3

C15_EditProfileUnknownUser ==
  \A c \in Calls :
    (/\ DoneCall(c, "editProfile") /\ ~calls[c].raised
     /\ FindOneById(users, calls[c].userId) = NoRow)
      => (/\ calls[c].out = Output(FALSE, "User not found")
          /\ calls[c].log = <<>>)

\* C16 (as claimed): an editProfile call with a new e-mail for a stored user,
\* met by no store error, leaves the user with the new e-mail and unverified,
\* deletes the user's earlier verifications, saves one new verification and
\* saves the user once; a `me` request made next reports the new e-mail.
C16_EditProfileEmail ==
  \A c \in Calls :
    (/\ DoneCall(c, "editProfile") /\ calls[c].email # 0
     /\ ~calls[c].raised /\ calls[c].found # NoRow)
      => LET id == calls[c].userId
             code == calls[c].code
         IN /\ users[id].email = calls[c].email
            /\ ~users[id].verified
            /\ {v \in verifications : v.userId = id} = {[code |-> code, userId |-> id]}
            /\ calls[c].log = <<Ev("verifications.delete", id, 0),
                                 Ev("verifications.save", id, code),
                                 Ev("users.save", id, 0)>>
            /\ MeRequest(users, id).kind = "User"
            /\ MeRequest(users, id).email = calls[c].email

\* the part of C16 that UsersService.editProfile does on its own
C16_ServicePart ==
  \A c \in Calls :
    (/\ DoneCall(c, "editProfile") /\ calls[c].email # 0
     /\ ~calls[c].raised /\ calls[c].found # NoRow)
      => LET id == calls[c].userId
             code == calls[c].code
         IN /\ users[id].email = calls[c].email
            /\ ~users[id].verified
            /\ {v \in verifications : v.userId = id} = {[code |-> code, userId |-> id]}
            /\ calls[c].log = <<Ev("verifications.delete", id, 0),
                                 Ev("verifications.save", id, code),
                                 Ev("users.save", id, 0)>>
            /\ MeRequest(users, id).kind = "UserProfileOutput"
            /\ MeRequest(users, id).user.email = calls[c].email

\* C17 (as claimed): once an editProfile call has saved a new password for an
\* account, every login with the account's current e-mail and that password
\* succeeds, whatever e-mail-only edits and verifyEmail calls came after.
C17_NewPasswordLogsIn ==
  \A c \in Calls :
    (/\ DoneCall(c, "login") /\ ~calls[c].raised
     /\ \E id \in ServiceIds :
          /\ users[id] # NoRow /\ users[id].email = calls[c].email
          /\ changedPassword[id] = calls[c].password)
      => calls[c].out.ok

\* the hashing part of C17: the stored password of such an account is the
\* new password hashed once, whatever was saved after
C17_HashedOnce ==
  \A id \in ServiceIds :
    (users[id] # NoRow /\ changedPassword[id] # "none")
      => users[id].password = Hash(Plain(changedPassword[id]))

C17_HashedOnceWitness ==
  \E id \in ServiceIds, c \in Calls :
    /\ users[id] # NoRow /\ changedPassword[id] = "new"
    /\ users[id].email = 2 /\ users[id].verified
    /\ DoneCall(c, "login") /\ calls[c].out.ok /\ calls[c].password = "new"

NotFound == Output(FALSE, "Verification not found.")

\* C18: a verifyEmail call that meets no store error: with a record holding
\* the code, the record's user is saved with verified = true, then the
\* record is deleted, and { ok: true } is returned; with no such record,
\* 'Verification not found.' is returned and no user and no verification
\* changes. A call made after a call with the same code returned
\* { ok: true } gets 'Verification not found.'.
C18_VerifyEmail ==
  [][\A c \in Calls :
       /\ (Begins(c, "verifyEmail") /\ ~calls'[c].raised)
            => IF \E v \in verifications : v.code = calls'[c].code
                 THEN /\ calls'[c].pc = "users.save"
                      /\ calls'[c].found.code = calls'[c].code
                      /\ [code |-> calls'[c].code, userId |-> calls'[c].found.userId]
                           \in verifications
                      /\ calls'[c].code \notin usedCodes
                 ELSE /\ calls'[c].pc = "done" /\ calls'[c].out = NotFound
                      /\ calls'[c].log = <<>>
       /\ (Begins(c, "verifyEmail") /\ ~calls'[c].raised /\ calls'[c].code \in usedCodes)
            => calls'[c].out = NotFound
       /\ (Begins(c, "verifyEmail") /\ calls'[c].pc = "done")
            => UNCHANGED <<users, nextId, verifications, usedCodes>>
       /\ (Ends(c, "verifyEmail") /\ ~Begins(c, "verifyEmail") /\ ~calls'[c].raised)
            => LET id == calls'[c].found.userId
                   code == calls'[c].code
               IN /\ calls'[c].out = Ok
                  /\ users'[id].verified
                  /\ \A v \in verifications' : v.code # code
                  /\ code \in usedCodes'
                  /\ calls'[c].log = <<Ev("users.save", id, 0),
                                        Ev("verifications.delete", 0, code)>>]_vars

C18_Witness ==
  \E c \in Calls :
    /\ DoneCall(c, "verifyEmail") /\ calls[c].out = NotFound
    /\ calls[c].after /\ calls[c].code \in usedCodes
    /\ \E id \in ServiceIds : users[id] # NoRow /\ users[id].verified

\* C19 (as claimed): a verifyEmail call never ends in a thrown error; when a
\* store call raises, it returns { ok: false, error: <the error's message> }.
C19_VerifyEmailNeverThrows ==
  \A c \in Calls :
    DoneCall(c, "verifyEmail")
      => (/\ calls[c].out.kind = "output"
          /\ calls[c].raised => calls[c].out = Output(FALSE, DbError))

\* C20: a createAccount call never ends in a thrown error; when its findOne,
\* its users.save or its verifications.save raises, it returns
\* { ok: false, error: 'Could not create account.' }.
C20_CreateAccountNeverThrows ==
  \A c \in Calls :
    DoneCall(c, "createAccount")
      => (/\ calls[c].out.kind = "output"
          /\ calls[c].raised
               => calls[c].out = Output(FALSE, "Could not create account."))

C20_Witness ==
  \E c \in Calls :
    /\ DoneCall(c, "createAccount") /\ calls[c].raised
    /\ calls[c].log = <<Ev("users.save", calls[c].userId, 0)>>
    /\ calls[c].out = Output(FALSE, "Could not create account.")

\* C21: findById never throws and never changes the store. It resolves to
\* {ok:true, user} with the stored row when a row has the id, to
\* {ok:false, error:'User not found'} when none has, and to {ok:false,
\* error: the error's message} when the lookup raises.
C21_FindById ==
  [][\A r \in Reqs :
       (reqs[r].pc = "findById" /\ reqs'[r].pc = "done") =>
         LET id == Verify(reqs[r].cred).id
             out == reqs'[r].user
         IN /\ store' = store
            /\ ~reqs'[r].escaped
            /\ out.kind = "UserProfileOutput"
            /\ reqs'[r].lookup \in {"found", "missing", "failed"}
            /\ reqs'[r].lookup = "found" =>
                 /\ users[id] # NoRow
                 /\ out.ok /\ out.user.id = id
                 /\ out.user.email = users[id].email
                 /\ out.user.role = users[id].role
            /\ reqs'[r].lookup = "missing" =>
                 /\ users[id] = NoRow
                 /\ ~out.ok /\ out.error = "User not found"
            /\ reqs'[r].lookup = "failed" =>
                 /\ ~out.ok /\ out.error = DbError
  ]_vars

\* findById has resolved for a stored user's id
C21_Witness ==
  \E r \in Reqs :
    /\ Done(r) /\ reqs[r].lookup = "found"
    /\ reqs[r].user.kind = "UserProfileOutput" /\ reqs[r].user.ok
    /\ reqs[r].user.user = reqs[r].row

(* the claim's conditions, read off the stored rows bo, br as they were when
   editOrder was called *)
MaySee(u, bo, br, id) ==
  /\ u.role = "owner" =>
       /\ bo[id].restaurantId \in DOMAIN br
       /\ br[bo[id].restaurantId] # NoRow
       /\ br[bo[id].restaurantId].ownerId = u.id
  /\ u.role = "delivery" => bo[id].driverId = u.id
  /\ u.role = "client" => bo[id].customerId = u.id

StatusPermitted(u, status) ==
  \/ u.role = "owner" /\ status \in {"Cooking", "Cooked"}
  \/ u.role = "delivery" /\ status \in {"PickedUp", "Delivered"}

EditPermitted(call) ==
  /\ call.input.id \in DOMAIN call.before.orders
  /\ call.before.orders[call.input.id] # NoRow
  /\ call.user.kind = "User"
  /\ MaySee(call.user, call.before.orders, call.before.restaurants, call.input.id)
  /\ StatusPermitted(call.user, call.input.status)

DoneShopCall(c, op) == shopCalls[c].op = op /\ shopCalls[c].pc = "done"

\* C22: editOrder changes an order's status only when the order exists, the
\* user may see it (an Owner: orders of a restaurant they own; a Delivery
\* user: orders they drive; a Client: orders they placed) and the status is
\* permitted for the user's role (Client: none; Owner: Cooking, Cooked;
\* Delivery: PickedUp, Delivered); in every other case it returns ok:false and
\* the order is unchanged.
C22_EditOrder ==
  \A c \in DOMAIN shopCalls :
    DoneShopCall(c, "editOrder") =>
      /\ orders # shopCalls[c].before.orders => EditPermitted(shopCalls[c])
      /\ ~EditPermitted(shopCalls[c]) =>
           ~shopCalls[c].out.ok /\ orders = shopCalls[c].before.orders

\* the same, for callers that are User entities (what the signature of
\* editOrder says it is given)
C22_ServicePart ==
  \A c \in DOMAIN shopCalls :
    (DoneShopCall(c, "editOrder") /\ shopCalls[c].user.kind = "User") =>
      /\ orders # shopCalls[c].before.orders => EditPermitted(shopCalls[c])
      /\ ~EditPermitted(shopCalls[c]) =>
           ~shopCalls[c].out.ok /\ orders = shopCalls[c].before.orders

\* an owner has moved an order of their restaurant to Cooking
C22_ServicePartWitness ==
  \E c \in DOMAIN shopCalls :
    /\ DoneShopCall(c, "editOrder") /\ shopCalls[c].user.kind = "User"
    /\ shopCalls[c].out = Ok
    /\ orders[shopCalls[c].input.id].status = "Cooking"
    /\ shopCalls[c].before.orders[shopCalls[c].input.id].status = "Pending"

\* C23: editRestaurant and deleteRestaurant modify or delete a restaurant only
\* when the caller's id equals the restaurant's ownerId; for a restaurant that
\* does not exist they return 'Restaurant not found.', for one of a different
\* owner 'You are not allowed to edit/delete this restaurant.', and in both
\* cases the restaurant store and the category store are left unchanged.
C23_OwnerOnly ==
  \A c \in DOMAIN shopCalls :
    (shopCalls[c].pc = "done"
     /\ shopCalls[c].op \in {"editRestaurant", "deleteRestaurant"}) =>
      LET call == shopCalls[c]
          row == FindRestaurant(call.before.restaurants, call.input.restaurantId)
          same == /\ restaurants = call.before.restaurants
                  /\ categories = call.before.categories
          verb == IF call.op = "editRestaurant" THEN "edit" ELSE "delete"
      IN /\ restaurants # call.before.restaurants =>
              row # NoRow /\ row.ownerId = call.user.id
         /\ row = NoRow =>
              /\ same
              /\ ~call.raised => call.out = Output(FALSE, "Restaurant not found.")
         /\ (row # NoRow /\ row.ownerId # call.user.id) =>
              /\ same
              /\ ~call.raised =>
                   /\ ~call.out.ok
                   /\ verb = "edit" => call.out.error =
                        "You are not allowed to edit this restaurant."
                   /\ verb = "delete" => call.out.error =
                        "You are not allowed to delete this restaurant."

\* a restaurant its owner renamed is still there after someone else's
\* deleteRestaurant was refused
C23_Witness ==
  \E c \in DOMAIN shopCalls :
    /\ shopCalls[c].pc = "done" /\ shopCalls[c].op = "deleteRestaurant"
    /\ ~shopCalls[c].raised /\ ~shopCalls[c].out.ok
    /\ FindRestaurant(restaurants, shopCalls[c].input.restaurantId) # NoRow
    /\ restaurants[shopCalls[c].input.restaurantId].ownerId # shopCalls[c].user.id
    /\ restaurants[shopCalls[c].input.restaurantId].name = "renamed"

\* C24: e-mail uniqueness. After any sequence of createAccount calls,
\* including two calls with the same e-mail whose find-then-save steps
\* interleave, at most one stored user has any given e-mail.
C24_EmailUnique ==
  \A email \in Emails : Cardinality(RowsByEmail(users, email)) <= 1

\* C25: role labels are consistent end to end. Every role value a stored user
\* can carry (the values of UserRole) is one of the labels a declared list can
\* hold ('Client', 'Owner', 'Delivery'), so a user of a role is admitted by an
\* operation that declares only that role.
C25_RoleLabelsConsistent ==
  (/\ guardVerdict # "none"
   /\ guardUser.kind = "User"
   /\ guardRoles # Undefined
   /\ guardRoles.list = <<UserRoleKey(guardUser.role)>>)
    => /\ guardUser.role \in AllowedRoles
       /\ guardVerdict = "ALLOW"

\* C26: verification and e-mail change are consistent under interleaving. A
\* user has at most one outstanding verification record; a user is verified
\* only through a code issued for their current e-mail; a verifyEmail that
\* overlaps an e-mail-changing editProfile can neither restore the old e-mail
\* nor leave the user verified for an address that was never confirmed.
\* (Stated on the two calls once both have finished.)
C26_VerificationConsistent ==
  /\ \A id \in ServiceIds :
       Cardinality({v \in verifications : v.userId = id}) <= 1
  /\ \A v \in DOMAIN calls, e \in DOMAIN calls :
       (/\ DoneCall(v, "verifyEmail") /\ calls[v].out = Ok
        /\ DoneCall(e, "editProfile") /\ ~calls[e].raised
        /\ calls[e].out.kind = "User"
        /\ calls[v].found.userId = calls[e].userId)
         => /\ users[calls[e].userId].email = calls[e].email
            /\ users[calls[e].userId].verified =>
                 calls[v].found.code = calls[e].code

\* the part that holds under interleaving: one outstanding verification
\* record per user (the unique foreign key rejects a second one)
C26_OneVerification ==
  \A id \in ServiceIds :
    Cardinality({v \in verifications : v.userId = id}) <= 1

\* the operations whose handler takes the @AuthUser() parameter
AuthUserOps ==
  {"me", "editProfile", "createRestaurant", "editRestaurant",
   "deleteRestaurant", "createOrder", "getOrders", "getOrder", "editOrder"}

\* C27: no handler that consumes the authenticated user is dispatched with an
\* absent principal: each such operation declares roles, so the guard denies
\* the request before the handler runs whenever no principal was resolved
\* (no token, a token that fails verification, a token whose user lookup
\* found no user or failed).
C27_NoHandlerWithoutPrincipal ==
  \A r \in Reqs :
    (Done(r) /\ ~reqs[r].escaped /\ reqs[r].op \in AuthUserOps) =>
      /\ Declared(reqs[r].op)
      /\ reqs[r].verdict = "ALLOW" => reqs[r].lookup = "found"

\* the part that holds: the handler is never run with the context's user unset
C27_ContextUserSet ==
  \A r \in Reqs :
    (Done(r) /\ ~reqs[r].escaped /\ reqs[r].op \in AuthUserOps) =>
      /\ Declared(reqs[r].op)
      /\ reqs[r].verdict = "ALLOW" => reqs[r].ctx # Undefined

\* C28: createAccount is all-or-nothing. Whenever it returns ok:false (also
\* when saving the verification record fails after the user was saved), no
\* user record it inserted remains stored, so a retry with the same e-mail is
\* not rejected as 'There is a user with that email already'.
C28_CreateAccountAllOrNothing ==
  \A c \in DOMAIN calls :
    (DoneCall(c, "createAccount") /\ ~calls[c].out.ok) =>
      /\ \A i \in DOMAIN calls[c].log :
           calls[c].log[i].ev = "users.save" => users[calls[c].log[i].id] = NoRow
      /\ calls[c].out # EmailTaken =>
           \A i \in DOMAIN calls[c].log :
             calls[c].log[i].ev = "users.save" =>
               FindByEmail(users, calls[c].email) = {NoRow}

\* C29: createOrder is all-or-nothing: whenever it returns ok:false
\* (restaurant not found, a later dish not found, a dish option choice not
\* found, or a store error), no order and no order-item record created by
\* that call remains stored.
C29_CreateOrderAllOrNothing ==
  \A c \in Calls :
    (DoneShopCall(c, "createOrder") /\ ~shopCalls[c].out.ok)
      => /\ orders = shopCalls[c].before.orders
         /\ orderItems = shopCalls[c].before.orderItems

\* the sum of a sequence of numbers
RECURSIVE SumSeq(_)
SumSeq(ns) == IF ns = <<>> THEN 0 ELSE Head(ns) + SumSeq(Tail(ns))

\* the dish option a requested option names (the first of that name), if any
NamedOptions(dish, itemOption) ==
  {i \in DOMAIN dish.options : dish.options[i].name = itemOption.name}
NamedOption(dish, itemOption) ==
  dish.options[CHOOSE i \in NamedOptions(dish, itemOption) :
                 \A j \in NamedOptions(dish, itemOption) : i <= j]

\* an option has an extra of its own when one is set and it is not 0
HasOwnExtra(option) == option.extra # NoExtra /\ option.extra # 0

NamedChoices(option, itemOption) ==
  {j \in DOMAIN option.choices : option.choices[j].name = itemOption.choice}

\* a requested option that names a dish option without an extra of its own
\* and a choice that this option does not have
ChoiceMissing(dish, itemOption) ==
  /\ NamedOptions(dish, itemOption) # {}
  /\ ~HasOwnExtra(NamedOption(dish, itemOption))
  /\ NamedChoices(NamedOption(dish, itemOption), itemOption) = {}

\* what the claim lets one requested option add to the price of its dish
OptionPart(dish, itemOption) ==
  IF NamedOptions(dish, itemOption) = {} THEN 0
  ELSE LET option == NamedOption(dish, itemOption)
           named == NamedChoices(option, itemOption)
       IN IF HasOwnExtra(option) THEN option.extra
          ELSE IF named = {} THEN 0
          ELSE LET choice == option.choices[CHOOSE j \in named :
                                              \A k \in named : j <= k]
               IN IF choice.extra = NoExtra THEN 0 ELSE choice.extra

ItemPart(item) ==
  LET dish == Menu[item.dishId]
  IN dish.price + SumSeq([k \in DOMAIN item.options |->
                            OptionPart(dish, item.options[k])])

\* C30: when createOrder returns ok:true, exactly one order is saved whose
\* total equals the sum, over the requested items, of the dish's price plus,
\* for each requested option whose name matches an option of that dish, the
\* option's own extra if it has one (an extra that is set and not 0), else the
\* extra of the dish-option choice named by the request (0 if that choice has
\* no extra); requested options that match no dish option add nothing, and a
\* named choice that does not exist makes the call fail with 'Dish option
\* choice not found.'.
C30_OrderTotal ==
  \A c \in Calls :
    DoneShopCall(c, "createOrder") =>
      LET items == shopCalls[c].input.items
          before == shopCalls[c].before
          allDishes == \A i \in DOMAIN items : items[i].dishId \in DOMAIN Menu
          missing == \E i \in DOMAIN items : \E k \in DOMAIN items[i].options :
                       /\ items[i].dishId \in DOMAIN Menu
                       /\ ChoiceMissing(Menu[items[i].dishId], items[i].options[k])
      IN /\ shopCalls[c].out.ok =>
              /\ allDishes /\ ~missing
              /\ \E id \in OrderIds :
                   /\ before.orders[id] = NoRow
                   /\ orders[id] # NoRow
                   /\ orders[id].total =
                        SumSeq([i \in DOMAIN items |-> ItemPart(items[i])])
                   /\ \A other \in OrderIds \ {id} :
                        orders[other] = before.orders[other]
              /\ Len(SelectSeq(shopCalls[c].log,
                               LAMBDA e : e.ev = "orders.save")) = 1
         /\ ( /\ ~shopCalls[c].raised
              /\ FindRestaurant(before.restaurants,
                                shopCalls[c].input.restaurantId) # NoRow
              /\ allDishes
              /\ missing )
              => shopCalls[c].out =
                   Output(FALSE, "Dish option choice not found.")

\* an order of two items was placed: dish 1 (10) with its "size" option
\* (own extra 2) and the "hot" choice of "spice" (extra 1), dish 2 (5) with an
\* option it does not have; the saved total is 18
C30_Witness ==
  \E c \in Calls :
    /\ DoneShopCall(c, "createOrder") /\ shopCalls[c].out.ok
    /\ shopCalls[c].input.items =
         << [dishId |-> 1,
             options |-> << [name |-> "size", choice |-> NoProp],
                            [name |-> "spice", choice |-> "hot"] >>],
            [dishId |-> 2,
             options |-> << [name |-> "other", choice |-> NoProp] >>] >>
    /\ orders[1] # NoRow /\ orders[1].total = 18

====
